---- MODULE Spec2Model ----
(***************************************************************************)
(* Model of the EJ log segmentation and field-extraction engine            *)
(* (src/src/services/ej_service.py, class EJService).                      *)
(*                                                                         *)
(* Text is modelled as sequences of tokens.  A token is a chunk of text:   *)
(* a literal word or marker (k = "w"), one whitespace character            *)
(* (k = "ws"), or a maximal run of digits (k = "num", value n, w digits).  *)
(* A line is a sequence of tokens; the concatenation of the tokens is the  *)
(* text of the line.                                                       *)
(***************************************************************************)
EXTENDS Integers, Sequences, FiniteSets, TLC

(***************************************************************************)
(* Bounds of the model.                                                    *)
(***************************************************************************)
MaxLines == 4
MaxSlice == 2
MaxCalls == 2
MaxFiles == 2
MaxFaults == 2
MaxClock == 120
MaxAttempts == 6
MaxRows == 3
MaxBatch == 2

(***************************************************************************)
(* Tokens and lines.                                                       *)
(***************************************************************************)
W(t) == [k |-> "w", t |-> t, n |-> 0, w |-> 0]
SP == [k |-> "ws", t |-> " ", n |-> 0, w |-> 0]
NL == [k |-> "ws", t |-> "\n", n |-> 0, w |-> 0]
Num(v, width) == [k |-> "num", t |-> "", n |-> v, w |-> width]

\* str.strip(): drop leading and trailing whitespace
RECURSIVE LStrip(_)
LStrip(s) == IF s # <<>> /\ Head(s).k = "ws" THEN LStrip(Tail(s)) ELSE s

RECURSIVE RStrip(_)
RStrip(s) == IF s # <<>> /\ s[Len(s)].k = "ws" THEN RStrip(SubSeq(s, 1, Len(s) - 1)) ELSE s

Strip(s) == RStrip(LStrip(s))

\* "marker in line" for a marker that is one token
Has(line, t) == \E j \in 1..Len(line) : line[j].k = "w" /\ line[j].t = t

\* A token of any other kind: k = "date-" (dd-dd-dd), "date/" (dd/dd/dd),
\* "time" (dd:dd:dd), "card" (digits, stars, digits), "amt" (digits and
\* commas, a dot, two digits); t identifies the text
Tok(kind, t) == [k |-> kind, t |-> t, n |-> 0, w |-> 0]

\* sentence contains the contiguous token sequence m ("m in line")
Contains(line, m) ==
    \E j \in 1..(Len(line) - Len(m) + 1) : SubSeq(line, j, j + Len(m) - 1) = m

RECURSIVE Pow10(_)
Pow10(e) == IF e = 0 THEN 1 ELSE 10 * Pow10(e - 1)

\* the number written by the first three digits of a run of >= 3 digits
First3(tok) == tok.n \div Pow10(tok.w - 3)

(***************************************************************************)
(* Regular expressions over tokens.  A pattern is a sequence of elements;  *)
(* an element matches one token and has a quantifier q ("1", greedy "*")   *)
(* and the number cap of the group it belongs to (0: none).                *)
(***************************************************************************)
El(m, ts, n) == [m |-> m, ts |-> ts, n |-> n, q |-> "1", cap |-> 0]
Lit(t) == El("lit", {t}, 0)            \* the literal text of a word token
Alt(ts) == El("lit", ts, 0)            \* (A|B|C)
Sp1 == El("sp", {}, 0)                 \* one literal blank
Ws == El("ws", {}, 0)                  \* \s
Dig == El("num", {}, 0)                \* \d+ (the whole run of digits)
Dig3 == El("num3", {}, 0)              \* \d{3}
Pre(n) == El("pre", {}, n)             \* three literal digits, e.g. 000
Kind(k) == El("kind", {k}, 0)          \* a token of the given kind
NumWs == El("numws", {}, 0)            \* [\d\s]
Word == El("word", {}, 0)              \* \w+ within one token
AnyCh == El("any", {}, 0)              \* .

Star(el) == [el EXCEPT !.q = "*"]
Plus(el) == <<el, Star(el)>>
Cap(el, g) == [el EXCEPT !.cap = g]

\* word tokens that are not made of \w characters
Punct == {"*", ":", ",", "-", "=", "\\", "/", "."}

Fits(el, tok) ==
    CASE el.m = "lit" -> tok.k = "w" /\ tok.t \in el.ts
      [] el.m = "sp" -> tok.k = "ws" /\ tok.t = " "
      [] el.m = "ws" -> tok.k = "ws"
      [] el.m = "num" -> tok.k = "num"
      [] el.m = "num3" -> tok.k = "num" /\ tok.w >= 3
      [] el.m = "pre" -> tok.k = "num" /\ tok.w >= 3 /\ First3(tok) = el.n
      [] el.m = "kind" -> tok.k \in el.ts
      [] el.m = "numws" -> tok.k \in {"num", "ws"}
      [] el.m = "word" -> tok.k = "num" \/ (tok.k = "w" /\ tok.t \notin Punct)
      [] el.m = "any" -> tok.t # "\n"

NoGroups == [g \in 1..5 |-> <<>>]
NoMatch == [ok |-> FALSE, e |-> 0, g |-> NoGroups]

\* match p[i..] against s from position j; the result has the end position
\* and the groups of the first match in the order a backtracking matcher
\* tries them (greedy)
RECURSIVE Rx(_, _, _, _, _)
Rx(p, s, i, j, g) ==
    IF i > Len(p) THEN [ok |-> TRUE, e |-> j, g |-> g]
    ELSE LET el == p[i]
             fits == j <= Len(s) /\ Fits(el, s[j])
             g2 == IF el.cap = 0 THEN g ELSE [g EXCEPT ![el.cap] = Append(@, s[j])]
         IN IF el.q = "1"
            THEN (IF fits THEN Rx(p, s, i + 1, j + 1, g2) ELSE NoMatch)
            ELSE LET stay == IF fits THEN Rx(p, s, i, j + 1, g2) ELSE NoMatch
                 IN IF stay.ok THEN stay ELSE Rx(p, s, i + 1, j, g)

\* first position >= from at which p matches (0: none)
FindFrom(p, s, from) ==
    LET starts == {j \in from..(Len(s) + 1) : Rx(p, s, 1, j, NoGroups).ok}
    IN IF starts = {} THEN 0 ELSE CHOOSE j \in starts : \A k \in starts : j <= k

\* pattern.search(s): the leftmost match
Search(p, s) ==
    LET j == FindFrom(p, s, 1)
    IN IF j = 0 THEN NoMatch ELSE Rx(p, s, 1, j, NoGroups)

\* _init_regex_patterns
patterns == [
    transaction_id |-> <<Lit("*"), Cap(Dig, 1), Lit("*")>>,
    timestamp |-> <<Lit("DATE"), Sp1, Cap(Kind("date-"), 1)>> \o Plus(Ws)
                  \o <<Lit("TIME"), Sp1, Cap(Kind("time"), 2)>>,
    card |-> <<Lit("CARD:")>> \o Plus(Ws) \o <<Cap(Kind("card"), 1)>>,
    amount |-> <<Lit("BDT"), Sp1, Cap(Kind("amt"), 1)>>,
    response_code |-> <<Lit("RESPONSE CODE")>> \o Plus(Ws) \o <<Lit(":")>> \o Plus(Ws)
                      \o <<Cap(Dig, 1)>>,
    notes |-> <<Lit("DISPENSED")>> \o Plus(Ws) \o Plus(Cap(NumWs, 1)),
    stan_terminal |-> <<Cap(Kind("date/"), 1)>> \o Plus(Ws) \o <<Cap(Kind("time"), 2)>>
                      \o Plus(Ws) \o <<Cap(Dig, 3)>> \o Plus(Ws) \o Plus(Cap(Word, 4)),
    account |-> <<Lit("AC"), Lit("COUNT"), Sp1, Lit("NBR.")>> \o Plus(Ws) \o <<Lit(":")>>
                \o Plus(Ws) \o <<Cap(Dig, 1)>>,
    transaction_number |-> <<Lit("TRN. NBR")>> \o Plus(Ws) \o <<Lit(":")>> \o Plus(Ws)
                           \o <<Cap(Dig, 1)>>,
    cash_totals |-> <<Cap(Alt({"DISPENSED", "REJECTED", "REMAINING"}), 1)>> \o Plus(Ws)
                    \o Plus(Cap(NumWs, 2)),
    deposit_complete |-> <<Lit("CIM-DEPOSIT COMPLETED"), Star(Cap(AnyCh, 1))>>,
    val |-> <<Lit("VAL:")>> \o Plus(Ws) \o <<Cap(Dig3, 1)>>,
    notes_dispensed_count |-> <<Cap(Alt({"COUNT", "NOTES PRESENTED"}), 1)>> \o Plus(Ws)
                              \o <<Cap(Dig, 2), Lit(","), Cap(Dig, 3), Lit(","),
                                   Cap(Dig, 4), Lit(","), Cap(Dig, 5)>>,
    retract_count |-> <<Lit("COUNT")>> \o Plus(Ws)
                      \o <<Cap(Dig, 1), Lit(","), Cap(Dig, 2), Lit(","),
                           Cap(Dig, 3), Lit(","), Cap(Dig, 4)>>,
    deposit_notes |-> <<Cap(Dig, 1), Sp1, Lit("BDT"), Sp1, Lit("X")>> \o Plus(Ws)
                      \o <<Cap(Dig, 2), Sp1, Lit("=")>>,
    void_notes |-> <<Lit("VOID"), Sp1, Lit("NOTES RETRACTED"), Lit(":"), Cap(Dig, 1)>> ]

(***************************************************************************)
(* Values of the fields of a transaction record: None, an int, a bool, a   *)
(* string (its tokens), or the five characters from offset n of a string.  *)
(***************************************************************************)
None_ == [k |-> "None", n |-> 0, x |-> <<>>]
I(n) == [k |-> "int", n |-> n, x |-> <<>>]
B(b) == [k |-> "bool", n |-> IF b THEN 1 ELSE 0, x |-> <<>>]
T(x) == [k |-> "str", n |-> 0, x |-> x]
Str(str) == T(<<W(str)>>)
Chars5(x, lo) == [k |-> "str[lo:lo+5]", n |-> lo, x |-> x]
List(x) == [k |-> "list", n |-> 0, x |-> x]

\* _safe_int of a matched run of digits
_safe_int(group) == I(group[1].n)

\* len() of a string of digits and blanks
RECURSIVE TextLen(_)
TextLen(x) == IF x = <<>> THEN 0
              ELSE (IF Head(x).k = "num" THEN Head(x).w ELSE 1) + TextLen(Tail(x))

Cats1 == <<"ABOX", "TYPE1", "TYPE2", "TYPE3">>
Cats2 == <<"TYPE4", "RETRACT", "REJECT", "RETRACT2">>
Categories == {Cats1[c] : c \in 1..4} \cup {Cats2[c] : c \in 1..4}
DenomKeys == {"Number of Total Inserted Notes", "Note_Count_BDT500", "Note_Count_BDT1000"}
             \cup {"BDT500_" \o c : c \in Categories}
             \cup {"BDT1000_" \o c : c \in Categories}
             \cup {"TOTAL_" \o c : c \in Categories}

\* _init_transaction_data
_init_transaction_data ==
    ("retract" :> Str("No")) @@ ("authentication" :> B(FALSE)) @@ ("pin_entry" :> B(FALSE))
    @@ ("status" :> Str("No Status")) @@ ("scenario" :> Str("Unknown"))
    @@ [key \in {"transaction_id", "timestamp", "card_number", "transaction_type",
                 "no_notes_dispensed", "notes_dispensed_unknown", "amount",
                 "response_code", "notes_dispensed", "notes_dispensed_count",
                 "notes_dispensed_t1", "notes_dispensed_t2", "notes_dispensed_t3",
                 "notes_dispensed_t4", "stan", "terminal", "account_number",
                 "transaction_number", "cash_dispensed", "cash_rejected",
                 "cash_remaining", "result", "retract_type1", "retract_type2",
                 "retract_type3", "retract_type4", "total_retracted_notes",
                 "deposit_retract_100", "deposit_retract_500", "deposit_retract_1000",
                 "deposit_retract_unknown", "total_deposit_retracted"}
                \cup DenomKeys |-> None_]

(***************************************************************************)
(* _process_deposit_completion.  Python indexes from 0, the model from 1:  *)
(* transaction[line_index + k] is tx[i + k].                               *)
(***************************************************************************)
ValOffset == 6

\* tx[lo..hi], clipped to the list as a Python slice is
PySlice(tx, lo, hi) ==
    IF lo > Len(tx) THEN <<>> ELSE SubSeq(tx, lo, IF hi > Len(tx) THEN Len(tx) ELSE hi)

\* the words of the tokens that are written with blanks inside
MultiWord == [t \in {"TRANSACTION END", "RESPONSE CODE", "NOTES TAKEN", "NOTES RETRACTED",
                     "TRANSACTION CANCELED", "CIM-DEPOSIT COMPLETED", "ITEMS REFUNDED"} |->
    CASE t = "TRANSACTION END" -> <<"TRANSACTION", "END">>
      [] t = "RESPONSE CODE" -> <<"RESPONSE", "CODE">>
      [] t = "NOTES TAKEN" -> <<"NOTES", "TAKEN">>
      [] t = "NOTES RETRACTED" -> <<"NOTES", "RETRACTED">>
      [] t = "TRANSACTION CANCELED" -> <<"TRANSACTION", "CANCELED">>
      [] t = "CIM-DEPOSIT COMPLETED" -> <<"CIM-DEPOSIT", "COMPLETED">>
      [] t = "ITEMS REFUNDED" -> <<"ITEMS", "REFUNDED">>]

RECURSIVE Spaced(_)
Spaced(ws) == IF Len(ws) = 1 THEN <<W(ws[1])>> ELSE <<W(ws[1]), SP>> \o Spaced(Tail(ws))

\* the line with every token written with blanks inside split at its blanks
RECURSIVE Expand(_)
Expand(line) ==
    IF line = <<>> THEN <<>>
    ELSE (IF Head(line).k = "w" /\ Head(line).t \in DOMAIN MultiWord
          THEN Spaced(MultiWord[Head(line).t])
          ELSE <<Head(line)>>) \o Expand(Tail(line))

\* the fields between runs of whitespace
RECURSIVE FieldsOf(_)
FieldsOf(line) ==
    LET s == LStrip(line)
    IN IF s = <<>> THEN <<>>
       ELSE LET n == CHOOSE n \in 1..Len(s) :
                        /\ \A j \in 1..n : s[j].k # "ws"
                        /\ n = Len(s) \/ s[n + 1].k = "ws"
            IN <<SubSeq(s, 1, n)>> \o FieldsOf(SubSeq(s, n + 1, Len(s)))

\* str.split()
Fields(line) == FieldsOf(Expand(line))

\* str.split('-')
RECURSIVE SplitDash(_)
SplitDash(s) ==
    IF \A j \in 1..Len(s) : s[j] # W("-") THEN <<s>>
    ELSE LET n == CHOOSE n \in 1..Len(s) : s[n] = W("-") /\ \A j \in 1..(n - 1) : s[j] # W("-")
         IN <<SubSeq(s, 1, n - 1)>> \o SplitDash(SubSeq(s, n + 1, Len(s)))

\* str.strip(',')
RECURSIVE StripCommas(_)
StripCommas(s) ==
    IF s # <<>> /\ Head(s) = W(",") THEN StripCommas(Tail(s))
    ELSE IF s # <<>> /\ s[Len(s)] = W(",") THEN StripCommas(SubSeq(s, 1, Len(s) - 1))
    ELSE s

\* int(text): the text is one run of digits, optionally signed, blanks around
\* it allowed; anything else raises ValueError
IsInt(x) ==
    LET s == Strip(x)
    IN  \/ Len(s) = 1 /\ s[1].k = "num"
        \/ Len(s) = 2 /\ s[1] = W("-") /\ s[2].k = "num"
IntOf(x) ==
    LET s == Strip(x)
    IN  IF Len(s) = 1 THEN s[1].n ELSE 0 - s[2].n

\* words that start with the characters BDT
BDTWords == {"BDT", "BDT100", "BDT500", "BDT1000"}

\* the loop over cash_details: cash_result.get('Note_Count_' + note, 0)
RECURSIVE NoteCount(_, _)
NoteCount(cash_details, note) ==
    IF cash_details = <<>> THEN 0
    ELSE LET n == Len(cash_details)
             cash_line == Strip(cash_details[n])
             parts == SplitDash(StripCommas(cash_line))
             earlier == NoteCount(SubSeq(cash_details, 1, n - 1), note)
         IN IF /\ cash_line # <<>>
               /\ cash_line[1].k = "w" /\ cash_line[1].t \in BDTWords
               /\ Len(parts) = 2
               /\ parts[1] = <<W(note)>>
               /\ IsInt(parts[2])
            THEN IntOf(parts[2])
            ELSE earlier

\* int(result[r][c]) if len(result) > r and len(result[r]) > c else 0
\* (r, c count from 0 as in the source)
CellPresent(result, r, c) == Len(result) > r /\ Len(result[r + 1]) > c
CellRaises(result, r, c) == CellPresent(result, r, c) /\ ~IsInt(result[r + 1][c + 1])
Cell(result, r, c) == IF CellPresent(result, r, c) THEN IntOf(result[r + 1][c + 1]) ELSE 0

\* ... and result[7][0] == 'UNKNOWN'
UnknownPresent(result, c) == CellPresent(result, 7, c) /\ result[8][1] = <<W("UNKNOWN")>>
UnknownCell(result, c) == IF UnknownPresent(result, c) THEN IntOf(result[8][c + 1]) ELSE 0

\* int(result[8][c]) if ... else (int(result[7][c]) if ... else 0)
TotalRow(result, c) == IF CellPresent(result, 8, c) THEN 8 ELSE 7

\* if val_value > 0:
ValPositive_any(val_value) == TRUE

ValPositive(val_value) == val_value > 0

_process_deposit_completion(i, tx) ==
    IF i + ValOffset > Len(tx) THEN <<>>
    ELSE
    LET val_match == Search(patterns.val, Strip(tx[i + ValOffset]))
        val_value == First3(val_match.g[1][1])
        cash_details == PySlice(tx, i + 7, i + 10)
        denomination_details == PySlice(tx, i + 12, i + 20)
        result == [r \in 1..Len(denomination_details) |-> Fields(Strip(denomination_details[r]))]
        raises ==
            \/ \E c \in 1..4 : \E r \in {1, 2, 3, 5, 6} : CellRaises(result, r, c)
            \/ \E c \in 1..4 : UnknownPresent(result, c) /\ ~IsInt(result[8][c + 1])
            \/ \E c \in 1..4 : CellRaises(result, TotalRow(result, c), c)
        cells ==
            [key \in {"BDT500_" \o Cats1[c] : c \in 1..4} |->
                Cell(result, 1, CHOOSE c \in 1..4 : key = "BDT500_" \o Cats1[c])]
            @@ [key \in {"BDT500_" \o Cats2[c] : c \in 1..4} |->
                Cell(result, 5, CHOOSE c \in 1..4 : key = "BDT500_" \o Cats2[c])]
            @@ [key \in {"BDT1000_" \o Cats1[c] : c \in 1..4} |->
                Cell(result, 2, CHOOSE c \in 1..4 : key = "BDT1000_" \o Cats1[c])]
            @@ [key \in {"BDT1000_" \o Cats2[c] : c \in 1..4} |->
                Cell(result, 6, CHOOSE c \in 1..4 : key = "BDT1000_" \o Cats2[c])]
            @@ [key \in {"UNKNOWN_" \o Cats2[c] : c \in 1..4} |->
                UnknownCell(result, CHOOSE c \in 1..4 : key = "UNKNOWN_" \o Cats2[c])]
            @@ [key \in {"TOTAL_" \o Cats1[c] : c \in 1..4} |->
                Cell(result, 3, CHOOSE c \in 1..4 : key = "TOTAL_" \o Cats1[c])]
            @@ [key \in {"TOTAL_" \o Cats2[c] : c \in 1..4} |->
                LET c == CHOOSE c \in 1..4 : key = "TOTAL_" \o Cats2[c]
                IN Cell(result, TotalRow(result, c), c)]
    IN IF ~val_match.ok THEN <<>>
       ELSE IF ~ValPositive(val_value) THEN <<>>
       ELSE IF raises THEN <<>>          \* ValueError, caught and logged
       ELSE ("Number of Total Inserted Notes" :> I(val_value))
            @@ ("Note_Count_BDT500" :> I(NoteCount(cash_details, "BDT500")))
            @@ ("Note_Count_BDT1000" :> I(NoteCount(cash_details, "BDT1000")))
            @@ [key \in DOMAIN cells |-> I(cells[key])]

(***************************************************************************)
(* _process_transaction_line: each block of the function gives the fields  *)
(* it assigns for the (stripped) line at index i of the slice tx.          *)
(***************************************************************************)
AccountMarker == <<W("AC"), W("COUNT"), SP, W("NBR.")>>  \* "ACCOUNT NBR."
RefundedSuffix == <<W("-"), SP, W("ITEMS REFUNDED")>>    \* "- ITEMS REFUNDED"
RefundFailedSuffix == <<W("-"), W("ITEMS REFUND FAILED")>>  \* "-ITEMS REFUND FAILED"

\* `line_index > 0` and transaction[line_index - 1]; without the test the
\* index -1 of the first line would name the last line of the slice
PreviousLine_wrap(tx, i) ==
    [ok |-> TRUE, line |-> IF i > 1 THEN tx[i - 1] ELSE tx[Len(tx)]]

PreviousLine(tx, i) ==
    IF i > 1 THEN [ok |-> TRUE, line |-> tx[i - 1]] ELSE [ok |-> FALSE, line |-> <<>>]

Line_transaction_id(line, i, tx) ==
    IF Has(line, "*TRANSACTION START*") /\ PreviousLine(tx, i).ok
    THEN LET tx_id_match == Search(patterns.transaction_id, Strip(PreviousLine(tx, i).line))
         IN IF tx_id_match.ok THEN "transaction_id" :> T(tx_id_match.g[1]) ELSE <<>>
    ELSE <<>>

Line_timestamp(line) ==
    IF Has(line, "DATE") /\ Has(line, "TIME")
    THEN LET m == Search(patterns.timestamp, line)
         IN IF m.ok THEN "timestamp" :> T(m.g[1] \o <<SP>> \o m.g[2]) ELSE <<>>
    ELSE <<>>

Line_card(line) ==
    IF Has(line, "CARD:")
    THEN LET m == Search(patterns.card, line)
         IN IF m.ok THEN "card_number" :> T(m.g[1]) ELSE <<>>
    ELSE <<>>

Line_transaction_type(line) ==
    IF Has(line, "CIM-DEPOSIT ACTIVATED") THEN "transaction_type" :> Str("Deposit")
    ELSE IF Has(line, "WITHDRAWAL") THEN "transaction_type" :> Str("Withdrawal")
    ELSE IF Has(line, "BALANCE INQUIRY") THEN "transaction_type" :> Str("Balance Inquiry")
    ELSE IF Has(line, "PIN CHANGE") THEN "transaction_type" :> Str("PIN Change")
    ELSE IF Has(line, "AUTHENTICATION") THEN "transaction_type" :> Str("Authentication")
    ELSE <<>>

Line_flags(line) ==
    (IF Has(line, "E*3") THEN "notes_dispensed_unknown" :> Str("Yes") ELSE <<>>)
    @@ (IF Has(line, "E*2") \/ Has(line, "E*4") THEN "no_notes_dispensed" :> Str("Yes") ELSE <<>>)
    @@ (IF Has(line, "E*5") THEN "retract" :> Str("Yes") ELSE <<>>)

Line_amount(line) ==
    IF Has(line, "TRN. AMOUNT")
    THEN LET m == Search(patterns.amount, line)
         IN IF m.ok THEN "amount" :> T(m.g[1]) ELSE <<>>
    ELSE <<>>

Line_response_code(line) ==
    IF Has(line, "RESPONSE CODE")
    THEN LET m == Search(patterns.response_code, line)
         IN IF m.ok THEN "response_code" :> T(m.g[1]) ELSE <<>>
    ELSE <<>>

Line_auth_pin(line) ==
    (IF Has(line, "PIN ENTERED") THEN "pin_entry" :> B(TRUE) ELSE <<>>)
    @@ (IF Has(line, "AUTHENTICATION") THEN "authentication" :> B(TRUE) ELSE <<>>)

Line_notes_dispensed(line) ==
    IF Has(line, "DISPENSED")
    THEN LET m == Search(patterns.notes, line)
             notes_str == Strip(m.g[1])
         IN IF m.ok
            THEN ("notes_dispensed" :> T(notes_str))
                 @@ (IF TextLen(notes_str) >= 23
                     THEN ("dispensed_t1" :> Chars5(notes_str, 0))
                          @@ ("dispensed_t2" :> Chars5(notes_str, 6))
                          @@ ("dispensed_t3" :> Chars5(notes_str, 12))
                          @@ ("dispensed_t4" :> Chars5(notes_str, 18))
                     ELSE <<>>)
            ELSE <<>>
    ELSE <<>>

\* the status of a CIM-DEPOSIT COMPLETED line, from the text after the marker
DepositStatus_any(result) == "Deposit Completed"

DepositStatus(result) ==
    IF result = RefundedSuffix THEN "ITEMS REFUNDED"
    ELSE IF result = RefundFailedSuffix THEN "ITEMS REFUND FAILED"
    ELSE "Deposit Completed"

\* the branch of the if / elif chain of the status block that the line takes
StatusBranch_taken(line) ==
    IF Has(line, "NOTES TAKEN") THEN "taken"
    ELSE IF Has(line, "TRANSACTION CANCELED") THEN "canceled"
    ELSE IF Has(line, "CIM-DEPOSIT COMPLETED") THEN "deposit"
    ELSE "none"

StatusBranch(line) ==
    IF Has(line, "TRANSACTION CANCELED") THEN "canceled"
    ELSE IF Has(line, "NOTES TAKEN") THEN "taken"
    ELSE IF Has(line, "CIM-DEPOSIT COMPLETED") THEN "deposit"
    ELSE "none"

Line_status(line, i, tx) ==
    IF StatusBranch(line) = "canceled" THEN "status" :> Str("Canceled")
    ELSE IF StatusBranch(line) = "taken" THEN "status" :> Str("Withdraw Completed")
    ELSE IF StatusBranch(line) = "deposit"
    THEN LET deposit_complete_match == Search(patterns.deposit_complete, line)
             result == Strip(deposit_complete_match.g[1])
         IN (IF DepositStatus(result) = "Deposit Completed"
             THEN _process_deposit_completion(i, tx)
             ELSE <<>>)
            @@ ("status" :> Str(DepositStatus(result)))
            @@ ("result" :> T(result))
    ELSE <<>>

Line_stan_terminal(line, i, tx) ==
    IF Has(line, "DATE") /\ Has(line, "HOUR") /\ Has(line, "STAN") /\ Has(line, "TERMINAL")
       /\ i + 1 <= Len(tx)
    THEN LET m == Search(patterns.stan_terminal, tx[i + 1])
         IN IF m.ok
            THEN ("timestamp" :> T(m.g[1] \o <<SP>> \o m.g[2]))
                 @@ ("stan" :> T(m.g[3])) @@ ("terminal" :> T(m.g[4]))
            ELSE <<>>
    ELSE <<>>

Line_account(line) ==
    IF Contains(line, AccountMarker)
    THEN LET m == Search(patterns.account, line)
         IN IF m.ok THEN "account_number" :> T(m.g[1]) ELSE <<>>
    ELSE <<>>

Line_transaction_number(line) ==
    IF Has(line, "TRN. NBR")
    THEN LET m == Search(patterns.transaction_number, line)
         IN IF m.ok THEN "transaction_number" :> T(m.g[1]) ELSE <<>>
    ELSE <<>>

Lower == [DISPENSED |-> "dispensed", REJECTED |-> "rejected", REMAINING |-> "remaining"]

Line_cash_totals(line) ==
    IF Has(line, "DISPENSED") \/ Has(line, "REJECTED") \/ Has(line, "REMAINING")
    THEN LET m == Search(patterns.cash_totals, line)
         IN IF m.ok THEN ("cash_" \o Lower[m.g[1][1].t]) :> T(Strip(m.g[2])) ELSE <<>>
    ELSE <<>>

Line_notes_count(line) ==
    IF Has(line, "COUNT") \/ Has(line, "NOTES PRESENTED")
    THEN LET m == Search(patterns.notes_dispensed_count, line)
         IN IF m.ok
            THEN ("notes_dispensed_count" :> T(m.g[1]))
                 @@ ("notes_dispensed_t1" :> _safe_int(m.g[2]))
                 @@ ("notes_dispensed_t2" :> _safe_int(m.g[3]))
                 @@ ("notes_dispensed_t3" :> _safe_int(m.g[4]))
                 @@ ("notes_dispensed_t4" :> _safe_int(m.g[5]))
            ELSE <<>>
    ELSE <<>>

\* The blocks in the order of the source; a later assignment to the same
\* key overrides an earlier one (the leftmost operand of @@ wins).
_process_transaction_line(line, i, tx, d) ==
    Line_notes_count(line) @@ Line_cash_totals(line) @@ Line_transaction_number(line)
    @@ Line_account(line) @@ Line_stan_terminal(line, i, tx) @@ Line_status(line, i, tx)
    @@ Line_notes_dispensed(line) @@ Line_auth_pin(line) @@ Line_response_code(line)
    @@ Line_amount(line) @@ Line_flags(line) @@ Line_transaction_type(line)
    @@ Line_card(line) @@ Line_timestamp(line) @@ Line_transaction_id(line, i, tx) @@ d

(***************************************************************************)
(* detect_scenario.  The scenario patterns are compiled from raw strings   *)
(* in which the backslashes are doubled: `\\s*` is a literal backslash     *)
(* followed by any number of `s`, `\\d+` a backslash followed by `d`s.     *)
(* A pattern A.*?B.*?C (DOTALL) is the list of its components A, B, C; a   *)
(* pattern (?=.*A)(?=.*B)(?=.*C).* asks for each component somewhere.      *)
(***************************************************************************)
BackslashS == <<Lit("\\"), Star(Lit("s"))>>

ResponseCodeEsc(code) == <<Lit("RESPONSE CODE")>> \o BackslashS \o <<Lit(":")>>
                         \o BackslashS \o <<Pre(code)>>

scenarios == <<
    [name |-> "successful_deposit", lookahead |-> FALSE,
     parts |-> << <<Lit("CIM-DEPOSIT COMPLETED")>>,
                  <<Lit("VAL:")>> \o BackslashS \o <<Lit("\\")>> \o Plus(Lit("d")),
                  ResponseCodeEsc(0) >>],
    [name |-> "deposit_retract", lookahead |-> FALSE,
     parts |-> << <<Lit("CASHIN RETRACT STARTED")>>, <<Lit("BILLS RETRACTED")>> >>],
    [name |-> "successful_withdrawal", lookahead |-> TRUE,
     parts |-> << <<Lit("WITHDRAWAL")>>, ResponseCodeEsc(0), <<Lit("NOTES TAKEN")>> >>],
    [name |-> "withdrawal_retracted", lookahead |-> FALSE,
     parts |-> << <<Lit("WITHDRAWAL")>>, <<Lit("RETRACT OPERATION")>>,
                  <<Lit("NOTES RETRACTED")>> >>],
    [name |-> "withdrawal_power_loss", lookahead |-> FALSE,
     parts |-> << <<Lit("WITHDRAWAL")>>, <<Lit("POWER INTERRUPTION DURING DISPENSE")>> >>],
    [name |-> "transaction_canceled_480", lookahead |-> FALSE,
     parts |-> << <<Lit("TRANSACTION CANCELED")>>, ResponseCodeEsc(480) >>] >>

\* '\n'.join(transaction)
RECURSIVE Join(_)
Join(tx) == IF tx = <<>> THEN <<>>
            ELSE IF Len(tx) = 1 THEN tx[1]
            ELSE tx[1] \o <<NL>> \o Join(Tail(tx))

\* the components from the c-th on occur in this order from position `from`.
\* Every component starts with a literal that occurs nowhere else in it, so
\* its leftmost match is also the one that ends first.
RECURSIVE Chain(_, _, _, _)
Chain(parts, text, c, from) ==
    IF c > Len(parts) THEN TRUE
    ELSE LET j == FindFrom(parts[c], text, from)
         IN j # 0 /\ Chain(parts, text, c + 1, Rx(parts[c], text, 1, j, NoGroups).e)

\* pattern.search(transaction_text)
ScenarioMatches(sc, text) ==
    IF sc.lookahead
    THEN \A c \in 1..Len(sc.parts) : FindFrom(sc.parts[c], text, 1) # 0
    ELSE Chain(sc.parts, text, 1, 1)

\* the loop over self.scenarios.items(): the first match returns
RECURSIVE DetectFrom(_, _, _)
DetectFrom(table, k, text) ==
    IF k > Len(table) THEN "unknown_scenario"
    ELSE IF ScenarioMatches(table[k], text) THEN table[k].name
    ELSE DetectFrom(table, k + 1, text)

\* a detect_scenario in which the last matching scenario would win
detect_scenario_last(tx) ==
    LET matching == {k \in 1..Len(scenarios) : ScenarioMatches(scenarios[k], Join(tx))}
    IN  IF matching = {} THEN "unknown_scenario"
        ELSE scenarios[CHOOSE k \in matching : \A j \in matching : j <= k].name

detect_scenario(tx) == DetectFrom(scenarios, 1, Join(tx))

(***************************************************************************)
(* Scenario-specific post-processing.                                      *)
(***************************************************************************)
\* sum(filter(None, [t1, t2, t3, t4]))
RetractTotal_first3(g) == g[1][1].n + g[2][1].n + g[3][1].n

RetractTotal(g) == g[1][1].n + g[2][1].n + g[3][1].n + g[4][1].n

RECURSIVE _process_withdrawal_retracted(_)
_process_withdrawal_retracted(tx) ==
    IF tx = <<>> THEN <<>>
    ELSE LET line == Head(tx)
             count_match == Search(patterns.retract_count, line)
         IN IF Has(line, "COUNT") /\ count_match.ok
            THEN ("retract_type1" :> _safe_int(count_match.g[1]))
                 @@ ("retract_type2" :> _safe_int(count_match.g[2]))
                 @@ ("retract_type3" :> _safe_int(count_match.g[3]))
                 @@ ("retract_type4" :> _safe_int(count_match.g[4]))
                 @@ ("total_retracted_notes" :> I(RetractTotal(count_match.g)))
            ELSE _process_withdrawal_retracted(Tail(tx))

\* the count of the last `N BDT X M =` line whose N is the denomination
RECURSIVE LastNoteCount(_, _)
LastNoteCount(tx, denomination) ==
    IF tx = <<>> THEN 0
    ELSE LET note_match == Search(patterns.deposit_notes, tx[Len(tx)])
         IN IF note_match.ok /\ note_match.g[1][1].n = denomination
            THEN note_match.g[2][1].n
            ELSE LastNoteCount(SubSeq(tx, 1, Len(tx) - 1), denomination)

\* the count of the last `VOID NOTES RETRACTED:N` line
RECURSIVE LastVoidCount(_)
LastVoidCount(tx) ==
    IF tx = <<>> THEN 0
    ELSE LET void_match == Search(patterns.void_notes, tx[Len(tx)])
         IN IF void_match.ok THEN void_match.g[1][1].n
            ELSE LastVoidCount(SubSeq(tx, 1, Len(tx) - 1))

DepositRetractTotal_novoid(d100, d500, d1000, unknown) == d100 + d500 + d1000

DepositRetractTotal(d100, d500, d1000, unknown) == d100 + d500 + d1000 + unknown

_process_deposit_retract(tx) ==
    LET deposit_100 == LastNoteCount(tx, 100)
        deposit_500 == LastNoteCount(tx, 500)
        deposit_1000 == LastNoteCount(tx, 1000)
        unknown_retracted == LastVoidCount(tx)
    IN ("deposit_retract_100" :> I(deposit_100))
       @@ ("deposit_retract_500" :> I(deposit_500))
       @@ ("deposit_retract_1000" :> I(deposit_1000))
       @@ ("deposit_retract_unknown" :> I(unknown_retracted))
       @@ ("total_deposit_retracted" :>
              I(DepositRetractTotal(deposit_100, deposit_500, deposit_1000, unknown_retracted)))

\* a post-processing of unknown_scenario that would leave the record alone
_process_unknown_scenario_skip(tx) == <<>>

_process_unknown_scenario(tx) ==
    ("deposit_retract_100" :> I(LastNoteCount(tx, 100)))
    @@ ("deposit_retract_500" :> I(LastNoteCount(tx, 500)))
    @@ ("deposit_retract_1000" :> I(LastNoteCount(tx, 1000)))

_post_process_transaction(tx, d) ==
    LET scenario == detect_scenario(tx)
    IN (IF scenario = "withdrawal_retracted" THEN _process_withdrawal_retracted(tx)
        ELSE IF scenario = "deposit_retract" THEN _process_deposit_retract(tx)
        ELSE IF scenario = "unknown_scenario" THEN _process_unknown_scenario(tx)
        ELSE <<>>)
       @@ ("scenario" :> Str(scenario)) @@ d

(***************************************************************************)
(* Lines of the vocabulary.                                                *)
(***************************************************************************)
L_Blank == <<>>
L_Spaces == <<SP, SP>>
L_Id == <<W("*"), Num(12, 2), W("*")>>
L_Start == <<W("*TRANSACTION START*")>>
L_Cardless == <<SP, W("*CARDLESS TRANSACTION START*")>>
L_End == <<W("*"), W("TRANSACTION END"), W("*")>>
L_Withdrawal == <<W("WITHDRAWAL")>>
L_ResponseCode(code) == <<W("RESPONSE CODE"), SP, W(":"), SP, Num(code, 3)>>
\* text that the scenario patterns match: RESPONSE CODE\:\000
L_ResponseCodeEsc(code) == <<W("RESPONSE CODE"), W("\\"), W(":"), W("\\"), Num(code, 3)>>
L_NotesTaken == <<W("NOTES TAKEN")>>
L_Canceled == <<W("TRANSACTION CANCELED")>>
L_CanceledTaken == <<W("TRANSACTION CANCELED"), SP, W("NOTES TAKEN")>>
L_TakenCompleted == <<W("NOTES TAKEN"), SP, W("CIM-DEPOSIT COMPLETED")>>
L_RetractOp == <<W("RETRACT OPERATION")>>
L_NotesRetracted == <<W("NOTES RETRACTED")>>
L_Count == <<W("COUNT"), SP, Num(1, 1), W(","), Num(2, 1), W(","), Num(0, 1), W(","), Num(3, 1)>>
L_PowerLoss == <<W("POWER INTERRUPTION DURING DISPENSE")>>
L_CashinRetract == <<W("CASHIN RETRACT STARTED")>>
L_BillsRetracted == <<W("BILLS RETRACTED")>>
L_Notes(denomination, count) ==
    <<Num(denomination, 3), SP, W("BDT"), SP, W("X"), SP, Num(count, 1), SP, W("=")>>
L_Void == <<W("VOID"), SP, W("NOTES RETRACTED"), W(":"), Num(3, 1)>>
L_Activated == <<W("CIM-DEPOSIT ACTIVATED")>>
L_Completed == <<W("CIM-DEPOSIT COMPLETED")>>
L_Refunded == L_Completed \o RefundedSuffix
L_RefundFailed == L_Completed \o RefundFailedSuffix
L_Val(n, width) == <<W("VAL:"), SP, Num(n, width)>>
\* text that the successful_deposit pattern matches: VAL:\s\d
L_ValEsc == <<W("VAL:"), W("\\"), W("s"), W("\\"), W("d")>>
L_DateTime == <<W("DATE"), SP, Tok("date-", "01-01-23"), SP, W("TIME"), SP, Tok("time", "12:34:56")>>
L_Card == <<W("CARD:"), SP, Tok("card", "1234****5678")>>
L_Amount == <<W("TRN. AMOUNT"), SP, W("BDT"), SP, Tok("amt", "10,000.00")>>
L_PinEntered == <<W("PIN ENTERED")>>
L_Authentication == <<W("AUTHENTICATION")>>
L_Balance == <<W("BALANCE INQUIRY")>>
L_PinChange == <<W("PIN CHANGE")>>
L_Dispensed == <<W("DISPENSED"), SP, Num(10, 5), SP, Num(0, 5), SP, Num(0, 5), SP, Num(2, 5)>>
L_Rejected == <<W("REJECTED"), SP, SP, Num(1, 5)>>
L_Presented == <<W("NOTES PRESENTED"), SP, Num(4, 1), W(","), Num(0, 1), W(","), Num(0, 1), W(","), Num(1, 1)>>
L_Error5 == <<W("E*5")>>
L_Error3 == <<W("E*3")>>
L_StanHeader == <<W("DATE"), SP, W("HOUR"), SP, W("STAN"), SP, W("TERMINAL")>>
L_StanLine == <<Tok("date/", "01/01/23"), SP, Tok("time", "12:34:56"), SP, Num(123456, 6), SP, W("TERM01")>>
L_Account == AccountMarker \o <<SP, W(":"), SP, Num(1234, 4)>>
L_TrnNbr == <<W("TRN. NBR"), SP, W(":"), SP, Num(987, 3)>>
L_Filler == <<W("S")>>

SegVocab == {L_Blank, L_Spaces, L_Id, L_Start, L_Cardless, L_End}

ExtVocab == {L_Blank, L_Id, L_Start, L_Cardless, L_End, L_Withdrawal, L_ResponseCode(0),
             L_ResponseCodeEsc(0), L_ResponseCodeEsc(480), L_NotesTaken, L_Canceled,
             L_Count, L_Notes(100, 2), L_Notes(500, 1), L_Void, L_Activated, L_Completed,
             L_Refunded, L_RefundFailed, L_Val(10, 3), L_DateTime, L_Card, L_Amount,
             L_PinEntered, L_Authentication, L_Balance, L_PinChange, L_Dispensed,
             L_Rejected, L_Presented, L_Error5, L_Error3, L_StanHeader, L_StanLine,
             L_Account, L_TrnNbr, L_CanceledTaken, L_TakenCompleted}

RECURSIVE SeqsUpTo(_, _)
SeqsUpTo(V, n) == IF n = 0 THEN {<<>>}
                  ELSE LET R == SeqsUpTo(V, n - 1)
                       IN R \cup {Append(r, x) : r \in {q \in R : Len(q) = n - 1}, x \in V}

\* the subsequences of a script: every choice of its lines, in their order
RECURSIVE SubScripts(_)
SubScripts(m) == IF m = <<>> THEN {<<>>}
                 ELSE LET R == SubScripts(Tail(m))
                      IN R \cup {<<Head(m)>> \o r : r \in R}

\* Scripts of whole transactions
WithdrawalScript == <<L_Id, L_Start, L_Withdrawal, L_ResponseCode(0), L_ResponseCodeEsc(0),
                      L_NotesTaken, L_StanHeader, L_StanLine, L_End>>
RetractScript == <<L_Withdrawal, L_CashinRetract, L_RetractOp, L_Count, L_NotesRetracted,
                   L_BillsRetracted, L_Canceled, L_ResponseCodeEsc(480), L_PowerLoss>>
DepositRetractScript == <<L_Cardless, L_CashinRetract, L_Notes(100, 2), L_Notes(500, 1),
                          L_Notes(100, 4), L_Void, L_BillsRetracted, L_End>>

\* The block that follows a CIM-DEPOSIT COMPLETED line
Header1 == <<W("DENOM"), SP, W("ABOX"), SP, W("TYPE1"), SP, W("TYPE2"), SP, W("TYPE3")>>
Header2 == <<W("DENOM"), SP, W("TYPE4"), SP, W("RETRACT"), SP, W("REJECT"), SP, W("RETRACT2")>>
Row(label, c1, c2, c3, c4) ==
    <<W(label), SP, Num(c1, 3), SP, Num(c2, 3), SP, Num(c3, 3), SP, Num(c4, 3)>>

TableWithUnknown ==
    <<Header1, Row("BDT500", 3, 1, 0, 0), Row("BDT1000", 4, 0, 2, 0), Row("TOTAL", 7, 1, 2, 0),
      Header2, Row("BDT500", 0, 3, 0, 1), Row("BDT1000", 1, 0, 4, 0),
      Row("UNKNOWN", 2, 0, 1, 0), Row("TOTAL", 3, 3, 5, 1)>>
TableNoUnknown ==
    <<Header1, Row("BDT500", 3, 1, 0, 0), Row("BDT1000", 4, 0, 2, 0), Row("TOTAL", 7, 1, 2, 0),
      Header2, Row("BDT500", 0, 3, 0, 1), Row("BDT1000", 1, 0, 4, 0),
      Row("TOTAL", 1, 3, 4, 1)>>
\* a row that lacks its last columns
TableShortRow ==
    <<Header1, Row("BDT500", 3, 1, 0, 0), <<W("BDT1000"), SP, Num(4, 3)>>,
      Row("TOTAL", 7, 1, 0, 0), Header2, Row("BDT500", 0, 3, 0, 1), <<W("BDT1000")>>,
      Row("TOTAL", 0, 3, 0, 1)>>
\* a cell that is not a number
TableBadCell ==
    <<Header1, Row("BDT500", 3, 1, 0, 0),
      <<W("BDT1000"), SP, Num(4, 3), SP, W("N/A"), SP, Num(2, 3), SP, Num(0, 3)>>,
      Row("TOTAL", 7, 1, 2, 0), Header2, Row("BDT500", 0, 3, 0, 1), Row("BDT1000", 1, 0, 4, 0),
      Row("TOTAL", 1, 3, 4, 1)>>
Tables == {TableWithUnknown, TableNoUnknown, TableShortRow, TableBadCell}

CashLines == {<<<<W("BDT500"), W("-"), Num(4, 3), W(",")>>, <<W("BDT1000"), W("-"), Num(6, 3)>>,
                <<W("REF:"), SP, Num(0, 3)>>, <<W("REJECTS:"), Num(0, 3)>>>>,
              <<<<W("BDT100"), W("-"), Num(2, 3), W(","), W("BDT500"), W("-"), Num(3, 3), W(",")>>,
                <<W("BDT1000"), W("-"), Num(3, 3)>>,
                <<W("REF:"), SP, Num(0, 3)>>, <<W("REJECTS:"), Num(1, 3)>>>>}

ValLines == {L_Val(10, 3), L_Val(0, 3), L_Val(100, 4), L_Val(7, 2), L_Filler}

\* what follows the table
Tails == {<<>>, <<L_Blank>>, <<L_End>>, <<L_ResponseCode(0), L_End>>,
          <<Row("REF", 9, 9, 9, 9)>>}

DepositBlock(completed, val, cash, table, tail) ==
    <<completed, L_Filler, L_Filler, L_Filler, L_Filler, L_Filler, val>>
    \o cash \o <<L_Filler>> \o table \o tail

Prefixes(m) == {SubSeq(m, 1, n) : n \in 0..Len(m)}

DepositBlocks ==
    {DepositBlock(c, v, cash, table, tail) :
        c \in {L_Completed}, v \in ValLines, cash \in CashLines, table \in Tables, tail \in Tails}
    \cup {DepositBlock(c, L_Val(10, 3), cash, TableWithUnknown, <<L_End>>) :
            c \in {L_Refunded, L_RefundFailed}, cash \in CashLines}

\* the slices given to extract_transaction_details
ExtInputs ==
    SeqsUpTo(ExtVocab, MaxSlice)
    \cup SubScripts(WithdrawalScript) \cup SubScripts(RetractScript)
    \cup SubScripts(DepositRetractScript)
    \cup UNION {Prefixes(m) : m \in DepositBlocks}
    \cup {pre \o m : pre \in {<<L_Refunded>>, <<L_Start, L_Canceled>>}, m \in DepositBlocks}
    \cup {m \o post : post \in {<<L_Refunded>>, <<L_NotesTaken>>},
                       m \in {DepositBlock(L_Completed, L_Val(10, 3), cash, TableWithUnknown, <<L_End>>) :
                                cash \in CashLines}}

VARIABLES
    mode,                 \* which entry point of the service is being exercised
    lines,                \* segment_transactions: the argument
    line_num,             \* segment_transactions: index of the next line of the loop (1-based)
    current_transaction,  \* segment_transactions: local
    in_transaction,       \* segment_transactions: local
    previous_line,        \* segment_transactions: local; [isNone, line]
    start_num,            \* history: index of the start sentinel of the open slice
    yielded,              \* the slices the generator has yielded in this run
    run,                  \* number of the call of segment_transactions on `lines`
    first_run,            \* what the first call yielded
    warnings,             \* segment_transactions: what this run wrote to logger.warning
    transaction,          \* extract_transaction_details: the argument
    line_index,           \* extract_transaction_details: index of the next line (1-based)
    transaction_data,     \* extract_transaction_details: the record being filled
    sub_parsed,           \* history: lines for which _process_deposit_completion was called
    detected,             \* what the direct calls of detect_scenario on the slice returned
    call,                 \* number of the call of extract_transaction_details on the instance
    populated_before,     \* history: the fields the previous call returned with a non-default value
    pc,                   \* extract_transaction_details: "lines", "done"
    supported_encodings,  \* config['supported_encodings']
    file_paths,           \* load_logs: the argument (the files the paths name)
    handled,              \* load_logs: the futures the as_completed loop has handled
    log_contents,         \* load_logs: local, then the argument of process_transactions
    errors,               \* load_logs: local
    metrics,              \* self.processing_metrics
    faults,               \* the slices during whose extraction the runtime raises
    workers,              \* process_single_file: the locals of each running worker
    futures,              \* process_transactions: results of the finished workers
    collected,            \* process_transactions: the futures the loop has handled
    all_transactions,     \* process_transactions: local
    processing_errors,    \* process_transactions: local
    bpc,                  \* position in the batch: "load", "process", "done"
    now,                  \* datetime.now(timezone.utc), in minutes since midnight
    failed_login_attempts, \* User: column
    account_locked_until, \* User: column; [isNone, at]
    is_active,            \* User: column
    last_response,        \* login: status code of the last response (0: none yet)
    fifth_at,             \* history: when increment_failed_login brought the counter to 5
    since_fifth,          \* history: login attempts of the user made after that failure
    transactions_json,    \* _save_transactions_to_database: the argument
    batch_size,           \* config['DATABASE_BATCH_SIZE']
    batch_start,          \* _save_transactions_to_database: i of the outer loop (0-based)
    tx_index,             \* _save_transactions_to_database: index in the batch of the next tx
    saved_count,          \* _save_transactions_to_database: local
    session,              \* db.session: number of pending rows
    committed,            \* number of rows the database holds
    spc                   \* _save_transactions_to_database: "rows", "commit", "done"

segvars == <<lines, line_num, current_transaction, in_transaction,
             previous_line, start_num, yielded, run, first_run, warnings>>
extvars == <<transaction, line_index, transaction_data, sub_parsed, detected, call,
             populated_before, pc>>
batchvars == <<supported_encodings, file_paths, handled, log_contents, errors, metrics,
               faults, workers, futures, collected, all_transactions, processing_errors, bpc>>
authvars == <<now, failed_login_attempts, account_locked_until, is_active, last_response,
              fifth_at, since_fifth>>
savevars == <<transactions_json, batch_size, batch_start, tx_index, saved_count, session,
              committed, spc>>
webvars == <<authvars, savevars>>
vars == <<mode, segvars, extvars, batchvars, webvars>>

SegIdle ==
    /\ lines = <<>> /\ line_num = 0 /\ current_transaction = <<>>
    /\ in_transaction = FALSE /\ previous_line = [isNone |-> TRUE, line |-> <<>>]
    /\ start_num = 0 /\ yielded = <<>> /\ run = 0 /\ first_run = <<>>
    /\ warnings = <<>>

ExtIdle ==
    /\ transaction = <<>> /\ line_index = 0 /\ transaction_data = <<>>
    /\ sub_parsed = {} /\ detected = <<>> /\ call = 0 /\ populated_before = {}
    /\ pc = "idle"

NoTime == [isNone |-> TRUE, at |-> 0]
SomeTime(t) == [isNone |-> FALSE, at |-> t]

AuthIdle ==
    /\ now = 0 /\ failed_login_attempts = 0 /\ account_locked_until = NoTime
    /\ is_active = TRUE /\ last_response = 0 /\ fifth_at = NoTime /\ since_fifth = 0

SaveIdle ==
    /\ transactions_json = <<>> /\ batch_size = 0 /\ batch_start = 0 /\ tx_index = 0
    /\ saved_count = 0 /\ session = 0 /\ committed = 0 /\ spc = "idle"

WebIdle == AuthIdle /\ SaveIdle

BatchIdle ==
    /\ supported_encodings = <<>> /\ file_paths = <<>> /\ handled = {}
    /\ log_contents = <<>> /\ errors = <<>> /\ metrics = <<>> /\ futures = <<>>
    /\ faults = {} /\ workers = <<>>
    /\ collected = {} /\ all_transactions = <<>> /\ processing_errors = <<>>
    /\ bpc = "idle"

NoneLine == [isNone |-> TRUE, line |-> <<>>]
SomeLine(l) == [isNone |-> FALSE, line |-> l]

\* Python truthiness of previous_line (None and "" are false)
Truthy(p) == ~p.isNone /\ p.line # <<>>

transaction_start_patterns == {"*TRANSACTION START*", "*CARDLESS TRANSACTION START*"}
transaction_end_pattern == "TRANSACTION END"

IsStart(line) == \E p \in transaction_start_patterns : Has(line, p)
IsEnd(line) == Has(line, transaction_end_pattern)

\* Entry of segment_transactions: the locals of a fresh generator.  They do
\* not depend on what an earlier generator left behind.
SegEntry_stale(cur, inT, prev) == [cur |-> <<>>, inT |-> FALSE, prev |-> prev]

SegEntry(cur, inT, prev) == [cur |-> <<>>, inT |-> FALSE, prev |-> NoneLine]

SegInit ==
    /\ mode = "segment"
    /\ lines \in SeqsUpTo(SegVocab, MaxLines)
    /\ run = 1
    /\ first_run = <<>>
    /\ current_transaction = SegEntry(<<>>, FALSE, NoneLine).cur
    /\ in_transaction = SegEntry(<<>>, FALSE, NoneLine).inT
    /\ previous_line = SegEntry(<<>>, FALSE, NoneLine).prev
    /\ line_num = 1
    /\ start_num = 0
    /\ yielded = <<>>
    /\ warnings = <<>>
    /\ ExtIdle /\ BatchIdle /\ WebIdle

\* A yielded slice, with (history) the index of its start sentinel and the
\* index of the line at which it was yielded (Len(lines) + 1 for the yield
\* after the loop).
Slice(ls, start, at) == [lines |-> ls, start |-> start, at |-> at]

\* current_transaction = [previous_line] if previous_line else []
\* current_transaction.append(line)
SeedSlice_noctx(prev, line) == <<line>>

SeedSlice(prev, line) ==
    (IF Truthy(prev) THEN <<prev.line>> ELSE <<>>) \o <<line>>

\* current_transaction.append(line) of the end-sentinel branch
CloseSlice_drop(cur, line) == cur

CloseSlice(cur, line) == Append(cur, line)

\* if current_transaction: yield current_transaction
YieldOpen_drop(out, cur, start, at) == out

YieldOpen(out, cur, start, at) ==
    IF cur # <<>> THEN Append(out, Slice(cur, start, at)) ELSE out

\* The locals of the generator and what it has yielded
SegState(cur, inT, prev, start, out) ==
    [cur |-> cur, inT |-> inT, prev |-> prev, start |-> start, out |-> out]

\* One iteration of the for loop of segment_transactions, on the line `raw`
\* at index `at`
SegLine(st, raw, at) ==
    LET line == Strip(raw)
    IN  IF IsStart(line)
        THEN SegState(SeedSlice(st.prev, line), TRUE, SomeLine(line), at,
                      YieldOpen(st.out, st.cur, st.start, at))
        ELSE IF IsEnd(line) /\ st.inT
        THEN SegState(<<>>, FALSE, SomeLine(line), st.start,
                      Append(st.out, Slice(CloseSlice(st.cur, line), st.start, at)))
        ELSE IF st.inT
        THEN SegState(Append(st.cur, line), st.inT, SomeLine(line), st.start, st.out)
        ELSE SegState(st.cur, st.inT, SomeLine(line), st.start, st.out)

\* After the loop: the trailing incomplete transaction
SegTail_drop(st, at) == st.out

SegTail(st, at) ==
    IF st.cur # <<>> /\ st.inT
    THEN Append(st.out, Slice(st.cur, st.start, at))
    ELSE st.out

\* logger.warning("Incomplete transaction found at end of file")
TailWarning(st) ==
    IF st.cur # <<>> /\ st.inT
    THEN <<"Incomplete transaction found at end of file">>
    ELSE <<>>

SegmentLine ==
    /\ mode = "segment"
    /\ line_num <= Len(lines)
    /\ LET st == SegLine(SegState(current_transaction, in_transaction, previous_line,
                                  start_num, yielded),
                         lines[line_num], line_num)
       IN /\ current_transaction' = st.cur
          /\ in_transaction' = st.inT
          /\ previous_line' = st.prev
          /\ start_num' = st.start
          /\ yielded' = st.out
    /\ line_num' = line_num + 1
    /\ UNCHANGED <<mode, lines, run, first_run, warnings, extvars, batchvars, webvars>>

\* The generator is exhausted after the yield that follows the loop
\* (line_num = Len(lines) + 2)
SegmentEnd ==
    /\ mode = "segment"
    /\ line_num = Len(lines) + 1
    /\ yielded' = SegTail(SegState(current_transaction, in_transaction, previous_line,
                                   start_num, yielded), line_num)
    /\ warnings' = warnings \o TailWarning(SegState(current_transaction, in_transaction,
                                                    previous_line, start_num, yielded))
    /\ line_num' = line_num + 1
    /\ UNCHANGED <<mode, lines, current_transaction, in_transaction, previous_line,
                   start_num, run, first_run, extvars, batchvars, webvars>>

SegDone == mode = "segment" /\ line_num = Len(lines) + 2

\* A second call of segment_transactions on the same list
SegmentAgain ==
    /\ SegDone
    /\ run = 1
    /\ run' = 2
    /\ first_run' = yielded
    /\ LET e == SegEntry(current_transaction, in_transaction, previous_line)
       IN /\ current_transaction' = e.cur
          /\ in_transaction' = e.inT
          /\ previous_line' = e.prev
    /\ line_num' = 1
    /\ start_num' = 0
    /\ yielded' = <<>>
    /\ warnings' = <<>>
    /\ UNCHANGED <<mode, lines, extvars, batchvars, webvars>>

SegNext == SegmentLine \/ SegmentEnd \/ SegmentAgain

SpecSeg == SegInit /\ [][SegNext]_vars

(***************************************************************************)
(* extract_transaction_details on one slice.                               *)
(***************************************************************************)
\* the lines of tx at which the line scan calls _process_deposit_completion
SubParserCalled(line) ==
    /\ ~Has(line, "TRANSACTION CANCELED") /\ ~Has(line, "NOTES TAKEN")
    /\ Has(line, "CIM-DEPOSIT COMPLETED")
    /\ DepositStatus(Strip(Search(patterns.deposit_complete, line).g[1])) = "Deposit Completed"

\* Entry of extract_transaction_details: transaction_data is the dict that
\* _init_transaction_data builds for this call; `earlier` is the record the
\* previous call returned, which the new dict does not depend on.
ExtEntry_stale(earlier) == earlier

ExtEntry(earlier) == _init_transaction_data

\* the slices of the later calls on the same instance
LaterInputs == {<<>>, <<L_Start>>, <<L_Start, L_Blank, L_End>>,
                <<L_Id, L_Start, L_Card, L_Withdrawal, L_NotesTaken, L_End>>}

ExtInit ==
    /\ mode = "extract"
    /\ transaction \in ExtInputs
    /\ line_index = 1
    /\ transaction_data = ExtEntry(_init_transaction_data)
    /\ sub_parsed = {}
    /\ detected = <<>>
    /\ call = 1
    /\ populated_before = {}
    /\ pc = "lines"
    /\ SegIdle /\ BatchIdle /\ WebIdle

\* One iteration of the loop over the lines: blank lines are skipped
ScanLine(tx, i, d) ==
    LET line == Strip(tx[i])
    IN  IF line = <<>> THEN d ELSE _process_transaction_line(line, i, tx, d)

\* After the loop: post-processing, the metadata, and the return
Finish(tx, d) ==
    ("processing_timestamp" :> Str("now")) @@ ("ej_log" :> List(tx))
    @@ _post_process_transaction(tx, d)

ExtractLine ==
    /\ mode = "extract" /\ pc = "lines"
    /\ line_index <= Len(transaction)
    /\ transaction_data' = ScanLine(transaction, line_index, transaction_data)
    /\ LET line == Strip(transaction[line_index])
       IN sub_parsed' = IF line # <<>> /\ SubParserCalled(line)
                        THEN sub_parsed \cup {line_index} ELSE sub_parsed
    /\ line_index' = line_index + 1
    /\ UNCHANGED <<mode, transaction, detected, call, populated_before, pc, segvars, batchvars, webvars>>

ExtractFinish ==
    /\ mode = "extract" /\ pc = "lines"
    /\ line_index = Len(transaction) + 1
    /\ transaction_data' = Finish(transaction, transaction_data)
    /\ pc' = "done"
    /\ UNCHANGED <<mode, transaction, line_index, sub_parsed, detected, call,
                   populated_before, segvars, batchvars, webvars>>

ExtDone == mode = "extract" /\ pc = "done"

\* A direct call of detect_scenario on the same slice (as the unit tests and
\* health_check make); the service keeps no state between calls
DetectAgain ==
    /\ ExtDone
    /\ Len(detected) < MaxCalls
    /\ detected' = Append(detected, detect_scenario(transaction))
    /\ UNCHANGED <<mode, transaction, line_index, transaction_data, sub_parsed, call,
                   populated_before, pc, segvars, batchvars, webvars>>

\* the fields of the template that a record holds with another value than
\* the template's
NonDefault(d) == {key \in DOMAIN _init_transaction_data : d[key] # _init_transaction_data[key]}

\* The next call of extract_transaction_details on the same instance, with
\* another slice
ExtractAgain ==
    /\ ExtDone
    /\ call < MaxCalls
    /\ \E tx \in LaterInputs : transaction' = tx
    /\ call' = call + 1
    /\ populated_before' = NonDefault(transaction_data)
    /\ transaction_data' = ExtEntry(transaction_data)
    /\ line_index' = 1
    /\ sub_parsed' = {}
    /\ detected' = <<>>
    /\ pc' = "lines"
    /\ UNCHANGED <<mode, segvars, batchvars, webvars>>

ExtNext == ExtractLine \/ ExtractFinish \/ DetectAgain \/ ExtractAgain

SpecExt == ExtInit /\ [][ExtNext]_vars

(***************************************************************************)
(* load_logs followed by process_transactions on a batch of files.  A file *)
(* is what stat() says of it, its newline-terminated lines and the text    *)
(* after its last newline; bytes are tokens, and Undecodable is a run of   *)
(* bytes that only latin-1 decodes.                                        *)
(***************************************************************************)
Undecodable == Tok("bad", "\\xff")

File(stat, content, tail) == [stat |-> stat, content |-> content, tail |-> tail]

HasUndecodable(f) ==
    \/ \E r \in 1..Len(f.content) : \E j \in 1..Len(f.content[r]) : f.content[r][j] = Undecodable
    \/ \E j \in 1..Len(f.tail) : f.tail[j] = Undecodable

\* a strict decoder of this encoding accepts the bytes of the file
StrictlyDecodable(encoding, f) == encoding = "latin-1" \/ ~HasUndecodable(f)

\* open(file_path, 'r', encoding=encoding, errors=...)
ErrorsHandler_strict == "strict"

ErrorsHandler == "ignore"

\* readlines() raises UnicodeDecodeError
DecodeRaises(encoding, f) == ErrorsHandler = "strict" /\ ~StrictlyDecodable(encoding, f)

\* the text of a line: latin-1 maps every byte to a character, the ignore
\* handler drops the bytes that cannot be decoded
RECURSIVE DecodeLine(_, _)
DecodeLine(encoding, line) ==
    IF line = <<>> THEN <<>>
    ELSE IF Head(line) # Undecodable THEN <<Head(line)>> \o DecodeLine(encoding, Tail(line))
    ELSE IF encoding = "latin-1" THEN <<W("\\u00ff")>> \o DecodeLine(encoding, Tail(line))
    ELSE DecodeLine(encoding, Tail(line))

\* file.readlines(): text after the last newline is a line if it is not empty
readlines(encoding, f) ==
    [r \in 1..Len(f.content) |-> DecodeLine(encoding, f.content[r])]
    \o (IF DecodeLine(encoding, f.tail) = <<>> THEN <<>> ELSE <<DecodeLine(encoding, f.tail)>>)

NoLines == [isNone |-> TRUE, list |-> <<>>]
SomeLines(ls) == [isNone |-> FALSE, list |-> ls]

\* the loop over config['supported_encodings'] from the k-th on
RECURSIVE TryEncodings(_, _, _)
TryEncodings(file_path, f, k) ==
    IF k > Len(supported_encodings)
    THEN <<file_path, NoLines, "Unable to decode file with supported encodings">>
    ELSE IF DecodeRaises(supported_encodings[k], f)
    THEN TryEncodings(file_path, f, k + 1)
    ELSE LET lines_ == readlines(supported_encodings[k], f)
         IN <<file_path, SomeLines([r \in 1..Len(lines_) |-> Strip(lines_[r])]), "None">>

load_single_file(file_path, f) ==
    IF f.stat = "missing" THEN <<file_path, NoLines, "File not found">>
    ELSE IF f.stat = "denied" THEN <<file_path, NoLines, "Permission denied">>
    ELSE IF f.stat = "oversized" THEN <<file_path, NoLines, "File too large">>
    ELSE TryEncodings(file_path, f, 1)

\* list(self.segment_transactions(lines))
RECURSIVE SegFold(_, _, _)
SegFold(st, ls, at) ==
    IF at > Len(ls) THEN SegTail(st, at)
    ELSE SegFold(SegLine(st, ls[at], at), ls, at + 1)

segment_transactions(ls) ==
    LET e == SegEntry(<<>>, FALSE, NoneLine)
        out == SegFold(SegState(e.cur, e.inT, e.prev, 0, <<>>), ls, 1)
    IN  [k \in 1..Len(out) |-> out[k].lines]

RECURSIVE ScanFrom(_, _, _)
ScanFrom(tx, i, d) == IF i > Len(tx) THEN d ELSE ScanFrom(tx, i + 1, ScanLine(tx, i, d))

extract_transaction_details(tx) == Finish(tx, ScanFrom(tx, 1, _init_transaction_data))

FileName(file_path) == [k |-> "name", n |-> file_path, x |-> <<>>]
FileHash(file_path) == [k |-> "md5", n |-> file_path, x |-> <<>>]

\* An unexpected exception (a subclass of Exception) raised by the runtime
\* while the slice of this index of this file is extracted: at "entry", by
\* the call of _init_transaction_data, before the try block; at "post", by
\* the call of _post_process_transaction, inside it.
Fault(file_path, index, at) == [file_path |-> file_path, index |-> index, at |-> at]

FaultAt(file_path, index) ==
    IF \E f \in faults : f.file_path = file_path /\ f.index = index
    THEN (CHOOSE f \in faults : f.file_path = file_path /\ f.index = index).at
    ELSE "none"

\* extract_transaction_details when the runtime raises at `at`: an exception
\* inside the try block is caught and the record returned with
\* extraction_error; one before it leaves the function
Outcome(tx, at, scanned) ==
    IF at = "entry" THEN [raised |-> TRUE, data |-> <<>>]
    ELSE IF at = "post"
    THEN [raised |-> FALSE,
          data |-> ("extraction_error" :> Str("fault")) @@ ("ej_log" :> List(tx))
                   @@ scanned]
    ELSE [raised |-> FALSE, data |-> Finish(tx, scanned)]

\* scanned is transaction_data after the loop over the lines
ExtractOutcome(tx, at) == Outcome(tx, at, ScanFrom(tx, 1, _init_transaction_data))

\* The locals of process_single_file: the slices, the index of the next one
\* (from 0) and the two lists
Local(transactions, i, structured_transactions, file_errors) ==
    [transactions |-> transactions, i |-> i,
     structured_transactions |-> structured_transactions, file_errors |-> file_errors]

\* structured_transactions.append(tx_data)
AppendRecord_front(list, tx_data) == <<tx_data>> \o list

AppendRecord(list, tx_data) == Append(list, tx_data)

\* the handler of the loop body; without it the exception would reach the
\* handler of the function, which returns [], [error_msg]
OnExtractRaise_file(local, error_msg) ==
    Local(local.transactions, Len(local.transactions), <<>>, <<error_msg>>)

OnExtractRaise(local, error_msg) ==
    Local(local.transactions, local.i + 1, local.structured_transactions,
          Append(local.file_errors, error_msg))

\* The body of the loop after the call of extract_transaction_details,
\* whose outcome is r
OnOutcome(file_path, local, r) ==
    LET i == local.i
        tx_data == ("file_name" :> FileName(file_path)) @@ ("file_hash" :> FileHash(file_path))
                   @@ ("transaction_index" :> I(i)) @@ r.data
    IN  IF r.raised
        THEN OnExtractRaise(local, [file_path |-> file_path, index |-> i])
        ELSE Local(local.transactions, i + 1,
                   AppendRecord(local.structured_transactions, tx_data), local.file_errors)

\* One iteration of the loop over enumerate(transactions)
WorkerStep(file_path, local) ==
    OnOutcome(file_path, local,
              ExtractOutcome(local.transactions[local.i + 1], FaultAt(file_path, local.i)))

RECURSIVE WorkerFold(_, _)
WorkerFold(file_path, local) ==
    IF local.i >= Len(local.transactions) THEN local
    ELSE WorkerFold(file_path, WorkerStep(file_path, local))

Result(local) == [structured_transactions |-> local.structured_transactions,
                  file_errors |-> local.file_errors]

process_single_file(file_path, ls) ==
    Result(WorkerFold(file_path, Local(segment_transactions(ls), 0, <<>>, <<>>)))

\* The files of a batch
GoodFile == File("ok", <<L_Id, L_Start, L_Withdrawal, L_NotesTaken, L_End>>, <<>>)
GoodFile2 == File("ok", <<L_Start, L_Canceled, L_End, L_Blank, L_Id, L_Cardless,
                          L_Activated, L_End>>, <<>>)
TruncatedFile == File("ok", <<L_Id>>, L_Start)
TruncatedCardlessFile == File("ok", <<L_Id, L_Cardless>>, <<>>)
TruncatedNoContextFile == File("ok", <<L_Start>>, <<>>)
EmptyFile == File("ok", <<>>, <<>>)
MissingFile == File("missing", <<>>, <<>>)
DeniedFile == File("denied", GoodFile.content, <<>>)
OversizedFile == File("oversized", GoodFile.content, <<>>)
UndecodableInside == File("ok", <<L_Start, L_Card \o <<Undecodable>>, L_End>>, <<>>)
UndecodableOnly == File("ok", <<>>, <<Undecodable, Undecodable>>)
UndecodableLine == File("ok", <<<<Undecodable>>>>, <<>>)

Files == {GoodFile, GoodFile2, TruncatedFile, TruncatedCardlessFile, TruncatedNoContextFile,
          EmptyFile, MissingFile, DeniedFile, OversizedFile, UndecodableInside,
          UndecodableOnly, UndecodableLine}

\* config.get('EJ_SUPPORTED_ENCODINGS', ['utf-8', 'utf-16', 'latin-1'])
Encodings == {<<"utf-8", "utf-16", "latin-1">>, <<"utf-8", "utf-16">>, <<"utf-8">>}

\* A file path is the index of the file in the batch
BatchInit ==
    /\ mode = "batch"
    /\ supported_encodings \in Encodings
    /\ file_paths \in SeqsUpTo(Files, MaxFiles)
    /\ handled = {}
    /\ log_contents = <<>>
    /\ errors = <<>>
    /\ metrics = [files_processed |-> 0, transactions_extracted |-> 0, errors |-> <<>>]
    /\ faults = {}
    /\ workers = <<>>
    /\ futures = <<>>
    /\ collected = {}
    /\ all_transactions = <<>>
    /\ processing_errors = <<>>
    /\ bpc = "load"
    /\ SegIdle /\ ExtIdle /\ WebIdle

\* errors.append(error_msg); the message names the file and the error
RecordError_drop(errs, file_path, error) == errs

RecordError(errs, file_path, error) ==
    Append(errs, [file_path |-> file_path, error |-> error])

\* load_logs: a future completes and the as_completed loop handles it
LoadFile ==
    /\ mode = "batch" /\ bpc = "load"
    /\ \E file_path \in (1..Len(file_paths)) \ handled :
          LET r == load_single_file(file_path, file_paths[file_path])
              lines_ == r[2]
              error == r[3]
          IN /\ handled' = handled \cup {file_path}
             /\ IF ~lines_.isNone /\ lines_.list # <<>>
                THEN /\ log_contents' = (file_path :> lines_.list) @@ log_contents
                     /\ UNCHANGED errors
                ELSE /\ errors' = RecordError(errors, file_path, error)
                     /\ UNCHANGED log_contents
    /\ UNCHANGED <<mode, supported_encodings, file_paths, metrics, faults, workers, futures,
                   collected, all_transactions, processing_errors, bpc, segvars, extvars, webvars>>

\* load_logs: the metrics update and the return; process_transactions is
\* then called with the returned map
LoadReturn ==
    /\ mode = "batch" /\ bpc = "load"
    /\ handled = 1..Len(file_paths)
    /\ metrics' = [metrics EXCEPT !.files_processed = Cardinality(DOMAIN log_contents),
                                  !.errors = metrics.errors \o errors]
    /\ bpc' = "process"
    /\ UNCHANGED <<mode, supported_encodings, file_paths, handled, log_contents, errors,
                   faults, workers, futures, collected, all_transactions, processing_errors,
                   segvars, extvars, webvars>>

\* process_transactions: a worker starts process_single_file and segments
\* the lines of its file
WorkerStart ==
    /\ mode = "batch" /\ bpc = "process"
    /\ \E file_path \in DOMAIN log_contents \ DOMAIN workers :
          workers' = (file_path :>
                        Local(segment_transactions(log_contents[file_path]), 0, <<>>, <<>>))
                     @@ workers
    /\ UNCHANGED <<mode, supported_encodings, file_paths, handled, log_contents, errors,
                   metrics, faults, futures, collected, all_transactions, processing_errors,
                   bpc, segvars, extvars, webvars>>

\* process_single_file: a worker extracts its next slice
WorkerExtract ==
    /\ mode = "batch" /\ bpc = "process"
    /\ \E file_path \in DOMAIN workers \ DOMAIN futures :
          /\ workers[file_path].i < Len(workers[file_path].transactions)
          /\ workers' = [workers EXCEPT ![file_path] = WorkerStep(file_path, @)]
    /\ UNCHANGED <<mode, supported_encodings, file_paths, handled, log_contents, errors,
                   metrics, faults, futures, collected, all_transactions, processing_errors,
                   bpc, segvars, extvars, webvars>>

\* process_transactions: a worker returns from process_single_file
WorkerReturn ==
    /\ mode = "batch" /\ bpc = "process"
    /\ \E file_path \in DOMAIN workers \ DOMAIN futures :
          /\ workers[file_path].i >= Len(workers[file_path].transactions)
          /\ futures' = (file_path :> Result(workers[file_path])) @@ futures
    /\ UNCHANGED <<mode, supported_encodings, file_paths, handled, log_contents, errors,
                   metrics, faults, workers, collected, all_transactions, processing_errors,
                   bpc, segvars, extvars, webvars>>

\* all_transactions.extend(structured_transactions)
Extend_replace(list, items) == items

Extend(list, items) == list \o items

\* process_transactions: the as_completed loop handles a finished future
Collect ==
    /\ mode = "batch" /\ bpc = "process"
    /\ \E file_path \in DOMAIN futures \ collected :
          /\ all_transactions' = Extend(all_transactions,
                                        futures[file_path].structured_transactions)
          /\ processing_errors' = Extend(processing_errors, futures[file_path].file_errors)
          /\ collected' = collected \cup {file_path}
    /\ UNCHANGED <<mode, supported_encodings, file_paths, handled, log_contents, errors,
                   metrics, faults, workers, futures, bpc, segvars, extvars, webvars>>

\* process_transactions: the DataFrame, the metrics update and the return
BatchReturn ==
    /\ mode = "batch" /\ bpc = "process"
    /\ collected = DOMAIN log_contents
    /\ metrics' = [metrics EXCEPT !.transactions_extracted = Len(all_transactions),
                                  !.errors = metrics.errors \o processing_errors]
    /\ bpc' = "done"
    /\ UNCHANGED <<mode, supported_encodings, file_paths, handled, log_contents, errors,
                   faults, workers, futures, collected, all_transactions, processing_errors,
                   segvars, extvars, webvars>>

BatchDone == mode = "batch" /\ bpc = "done"

BatchNext ==
    \/ LoadFile \/ LoadReturn \/ WorkerStart \/ WorkerExtract \/ WorkerReturn
    \/ Collect \/ BatchReturn

SpecBatch == BatchInit /\ [][BatchNext]_vars

(***************************************************************************)
(* The same batch when the runtime raises unexpected exceptions during the *)
(* extraction of some slices.                                              *)
(***************************************************************************)
\* the lines that load_single_file returns for a file of plain text
StrippedLines(f) ==
    LET ls == readlines("utf-8", f) IN [r \in 1..Len(ls) |-> Strip(ls[r])]

\* the files of such a batch
FaultFiles == {GoodFile2, TruncatedFile, MissingFile}

\* the slices of the files of the batch, as (file path, index from 0)
SlicesOf(paths) ==
    {<<p, i>> : p \in 1..Len(paths), i \in 0..(MaxLines - 1)} \cap
    {pi \in (1..Len(paths)) \X (0..(MaxLines - 1)) :
        /\ paths[pi[1]].stat = "ok"
        /\ pi[2] < Len(segment_transactions(StrippedLines(paths[pi[1]])))}

\* at most MaxFaults faults, at most one in a slice
FaultSets(paths) ==
    {fs \in SUBSET {Fault(pi[1], pi[2], at) : pi \in SlicesOf(paths), at \in {"entry", "post"}} :
        /\ Cardinality(fs) <= MaxFaults
        /\ \A f \in fs, g \in fs : (f.file_path = g.file_path /\ f.index = g.index) => f = g}

FaultInit ==
    /\ mode = "batch"
    /\ supported_encodings = <<"utf-8", "utf-16", "latin-1">>
    /\ file_paths \in SeqsUpTo(FaultFiles, MaxFiles)
    /\ faults \in FaultSets(file_paths)
    /\ handled = {}
    /\ log_contents = <<>>
    /\ errors = <<>>
    /\ metrics = [files_processed |-> 0, transactions_extracted |-> 0, errors |-> <<>>]
    /\ workers = <<>>
    /\ futures = <<>>
    /\ collected = {}
    /\ all_transactions = <<>>
    /\ processing_errors = <<>>
    /\ bpc = "load"
    /\ SegIdle /\ ExtIdle /\ WebIdle

SpecFault == FaultInit /\ [][BatchNext]_vars

(***************************************************************************)
(* models.py, auth_controller.py: the account lock (specification         *)
(* SpecAuth).  Time is counted in minutes; one user exists, and a login   *)
(* names his email or another one.                                         *)
(***************************************************************************)
Emails == {"user", "other"}

\* datetime.replace(minute=m): the minute field is set, the hour is kept
ReplaceMinute(t, m) == (t \div 60) * 60 + m

is_locked ==
    IF ~account_locked_until.isNone THEN now < account_locked_until.at ELSE FALSE

increment_failed_login ==
    /\ failed_login_attempts' = failed_login_attempts + 1
    /\ account_locked_until' =
          IF failed_login_attempts + 1 >= 5
          THEN SomeTime(ReplaceMinute(now, 30))
          ELSE account_locked_until

reset_failed_login ==
    /\ failed_login_attempts' = 0
    /\ account_locked_until' = NoTime

Respond(email, code) == last_response' = [last_response EXCEPT ![email] = code]

\* history: one more attempt of the user since the fifth failure
Attempted == IF fifth_at.isNone \/ since_fifth >= 2 THEN since_fifth ELSE since_fifth + 1

login(email, verify_password) ==
    /\ mode = "auth"
    /\ IF email # "user"
       THEN /\ Respond(email, 401)
            /\ UNCHANGED <<failed_login_attempts, account_locked_until, fifth_at,
                           since_fifth>>
       ELSE IF is_locked
       THEN /\ Respond(email, 423)
            /\ since_fifth' = Attempted
            /\ UNCHANGED <<failed_login_attempts, account_locked_until, fifth_at>>
       ELSE IF ~is_active
       THEN /\ Respond(email, 403)
            /\ since_fifth' = Attempted
            /\ UNCHANGED <<failed_login_attempts, account_locked_until, fifth_at>>
       ELSE IF ~verify_password
       THEN /\ failed_login_attempts < MaxAttempts
            /\ increment_failed_login
            /\ fifth_at' = IF failed_login_attempts + 1 = 5 THEN SomeTime(now) ELSE fifth_at
            /\ since_fifth' = Attempted
            /\ Respond(email, 401)
       ELSE /\ reset_failed_login
            /\ fifth_at' = NoTime
            /\ since_fifth' = 0
            /\ Respond(email, 200)
    /\ UNCHANGED <<mode, now, is_active, savevars, segvars, extvars, batchvars>>

Login == \E email \in Emails, verify_password \in BOOLEAN : login(email, verify_password)

\* The clock advances between two requests
Tick ==
    /\ mode = "auth"
    /\ now + 10 <= MaxClock
    /\ now' = now + 10
    /\ UNCHANGED <<mode, failed_login_attempts, account_locked_until, is_active,
                   last_response, fifth_at, since_fifth, savevars, segvars, extvars,
                   batchvars>>

AuthNext == Login \/ Tick

AuthInit ==
    /\ mode = "auth"
    /\ now \in {0, 10, 20, 30, 40, 50}
    /\ failed_login_attempts = 0
    /\ account_locked_until = NoTime
    /\ is_active \in BOOLEAN
    /\ last_response = [email \in Emails |-> 0]
    /\ fifth_at = NoTime
    /\ since_fifth = 0
    /\ SegIdle /\ ExtIdle /\ BatchIdle /\ SaveIdle

SpecAuth == AuthInit /\ [][AuthNext]_vars

\* C29: within the 30 minutes that follow the failure which brought
\* failed_login_attempts to 5, whatever the time of day of that failure,
\* is_locked is true and every login attempt of the user made since then was
\* answered 423; and after a successful login (200) the counter is 0 and
\* the lock is cleared.
C29_LockedThirtyMinutes ==
    mode = "auth" =>
        /\ (~fifth_at.isNone /\ now < fifth_at.at + 30) =>
              /\ is_locked
              /\ since_fifth > 0 => last_response["user"] = 423
        /\ last_response["user"] = 200 =>
              /\ failed_login_attempts = 0
              /\ account_locked_until = NoTime

(***************************************************************************)
(* ej_controller.py: _save_transactions_to_database (specification        *)
(* SpecSave).  A transaction of the argument is TRUE when a Transaction   *)
(* object can be constructed from it and FALSE when the constructor       *)
(* raises.                                                                 *)
(***************************************************************************)
RECURSIVE BoolSeqs(_)
BoolSeqs(n) ==
    IF n = 0 THEN {<<>>}
    ELSE BoolSeqs(n - 1) \cup
         {Append(q, b) : q \in {x \in BoolSeqs(n - 1) : Len(x) = n - 1}, b \in BOOLEAN}

Min2(a, b) == IF a < b THEN a ELSE b

\* batch = transactions_json[i:i + batch_size]
batch ==
    SubSeq(transactions_json, batch_start + 1,
           Min2(batch_start + batch_size, Len(transactions_json)))

\* What the failed commit subtracts from saved_count
FailedBatchAdjust(n, pending) == n

\* for tx in batch: one iteration
SaveRow ==
    /\ mode = "save" /\ spc = "rows"
    /\ tx_index <= Len(batch)
    /\ IF batch[tx_index]
       THEN /\ session' = session + 1
            /\ saved_count' = saved_count + 1
       ELSE UNCHANGED <<session, saved_count>>
    /\ tx_index' = tx_index + 1
    /\ spc' = IF tx_index = Len(batch) THEN "commit" ELSE "rows"
    /\ UNCHANGED <<mode, transactions_json, batch_size, batch_start, committed, authvars,
                   segvars, extvars, batchvars>>

\* db.session.commit() at the end of a batch, then the next batch or the return
NextBatch ==
    /\ batch_start' = batch_start + batch_size
    /\ tx_index' = 1
    /\ spc' = IF batch_start + batch_size < Len(transactions_json) THEN "rows" ELSE "done"

CommitBatch ==
    /\ mode = "save" /\ spc = "commit"
    /\ committed' = committed + session
    /\ session' = 0
    /\ UNCHANGED saved_count
    /\ NextBatch
    /\ UNCHANGED <<mode, transactions_json, batch_size, authvars, segvars, extvars,
                   batchvars>>

CommitFails ==
    /\ mode = "save" /\ spc = "commit"
    /\ session' = 0
    /\ saved_count' = saved_count - FailedBatchAdjust(Len(batch), session)
    /\ UNCHANGED committed
    /\ NextBatch
    /\ UNCHANGED <<mode, transactions_json, batch_size, authvars, segvars, extvars,
                   batchvars>>

SaveNext == SaveRow \/ CommitBatch \/ CommitFails

SaveInit ==
    /\ mode = "save"
    /\ transactions_json \in BoolSeqs(MaxRows)
    /\ batch_size \in 1..MaxBatch
    /\ batch_start = 0
    /\ tx_index = 1
    /\ saved_count = 0
    /\ session = 0
    /\ committed = 0
    /\ spc = IF transactions_json = <<>> THEN "done" ELSE "rows"
    /\ SegIdle /\ ExtIdle /\ BatchIdle /\ AuthIdle

SpecSave == SaveInit /\ [][SaveNext]_vars

\* C30: when _save_transactions_to_database returns, saved_count is the
\* number of rows of the batches whose commit succeeded, and it is not
\* negative, whichever constructions and commits failed.
C30_ReturnsCommittedRows ==
    (mode = "save" /\ spc = "done") =>
        /\ saved_count = committed
        /\ saved_count >= 0

(***************************************************************************)
(* Claims about segment_transactions (specification SpecSeg).              *)
(***************************************************************************)
IsSentinel(line) == IsStart(line) \/ IsEnd(line)

\* A start sentinel at s closed by an end sentinel at e, no sentinel between
ValidPair(s, e) ==
    /\ s < e
    /\ IsStart(lines[s])
    /\ IsEnd(lines[e]) /\ ~IsStart(lines[e])
    /\ \A m \in (s + 1)..(e - 1) : ~IsSentinel(lines[m])

\* C3: for every start sentinel at s closed by an end sentinel at e with no
\* sentinel in between, the slice yielded at e has e - s + 1 lines, plus one
\* whenever a line exists at s - 1, whatever it contains (also a blank line).
C3_SliceLengthAnyContext ==
    SegDone =>
        \A s \in 1..Len(lines), e \in 1..Len(lines) :
            ValidPair(s, e) =>
                \E k \in 1..Len(yielded) :
                    /\ yielded[k].at = e
                    /\ Len(yielded[k].lines) = (e - s + 1) + (IF s > 1 THEN 1 ELSE 0)

LastLine(y) == y.lines[Len(y.lines)]

FirstLineOk(y) ==
    \/ y.lines[1] = Strip(lines[y.start])
    \/ /\ y.start > 1
       /\ Len(y.lines) >= 2
       /\ y.lines[1] = Strip(lines[y.start - 1])
       /\ y.lines[2] = Strip(lines[y.start])

\* C4 as stated: every yielded slice starts with the context line or the
\* start sentinel and ends with an end sentinel, except the one trailing
\* unterminated slice yielded at end of input.
C4_EndsWithEndOrTrailing ==
    \A k \in 1..Len(yielded) :
        /\ FirstLineOk(yielded[k])
        /\ \/ IsEnd(LastLine(yielded[k]))
           \/ /\ k = Len(yielded)
              /\ yielded[k].at = Len(lines) + 1

\* C4 amended: every yielded slice starts with the context line or the start
\* sentinel; its last line is an end sentinel unless the slice was cut short
\* by the next start sentinel (it is yielded at that sentinel, and its last
\* line is the line before it) or is the trailing slice yielded at end of
\* input.
C4_EndsWithEndOrCutShort ==
    \A k \in 1..Len(yielded) :
        LET y == yielded[k]
        IN /\ FirstLineOk(y)
           /\ IsStart(y.lines[1]) \/ IsStart(y.lines[2])
           /\ \/ /\ y.at <= Len(lines)
                 /\ IsEnd(lines[y.at]) /\ ~IsStart(lines[y.at])
                 /\ LastLine(y) = Strip(lines[y.at])
              \/ /\ y.at <= Len(lines)
                 /\ IsStart(lines[y.at])
                 /\ LastLine(y) = Strip(lines[y.at - 1])
                 /\ ~IsEnd(LastLine(y)) \/ IsStart(LastLine(y))
              \/ /\ y.at = Len(lines) + 1
                 /\ k = Len(yielded)
                 /\ LastLine(y) = Strip(lines[Len(lines)])

\* C4 witness: a slice closed by its end sentinel and, before it, a slice
\* cut short by a start sentinel
C4_Witness ==
    /\ SegDone
    /\ \E k \in 1..Len(yielded) :
          yielded[k].at <= Len(lines) /\ IsStart(lines[yielded[k].at])
    /\ \E k \in 1..Len(yielded) : IsEnd(LastLine(yielded[k]))

\* C5: a second run of segment_transactions on the same lines yields the
\* same sequence of slices as the first.
C5_SecondRunSame ==
    (SegDone /\ run = 2) => yielded = first_run

\* C5 witness: the second run has finished on an input that starts with a
\* start sentinel and ends with a non-blank line, and has yielded two slices
C5_Witness ==
    /\ SegDone /\ run = 2
    /\ Len(yielded) >= 2
    /\ IsStart(lines[1])
    /\ Strip(lines[Len(lines)]) # <<>>

\* a slice is open when line i arrives: a start sentinel precedes it with
\* no end sentinel in between
OpenAt(i) ==
    \E j \in 1..(i - 1) :
        /\ IsStart(Strip(lines[j]))
        /\ \A m \in (j + 1)..(i - 1) : ~IsStart(Strip(lines[m])) /\ ~IsEnd(Strip(lines[m]))

\* line i is a start sentinel that arrives while a slice is open
StartWhileOpen(i) == IsStart(Strip(lines[i])) /\ OpenAt(i)

\* the lines of the input from the start sentinel of the slice to the line
\* before the one at which it was yielded, stripped
Accumulated(y) == [m \in 1..(y.at - y.start) |-> Strip(lines[y.start + m - 1])]

\* the slice holds all these lines, after at most one context line
HoldsAccumulated(y) ==
    \/ y.lines = Accumulated(y)
    \/ /\ y.start > 1
       /\ y.lines = <<Strip(lines[y.start - 1])>> \o Accumulated(y)

\* yielded[k] is the open slice, yielded at line i, and yielded[k + 1] is
\* the slice opened at line i, which begins with seed
YieldedThenOpened(k, i, seed) ==
    /\ yielded[k].at = i
    /\ HoldsAccumulated(yielded[k])
    /\ k < Len(yielded)
    /\ yielded[k + 1].start = i
    /\ Len(yielded[k + 1].lines) >= Len(seed)
    /\ SubSeq(yielded[k + 1].lines, 1, Len(seed)) = seed

StartLines == {i \in 1..Len(lines) : IsStart(Strip(lines[i]))}

HasLine(l) == \E i \in 1..Len(transaction) : Strip(transaction[i]) = l

Field(key) == transaction_data[key]

\* C1: every slice whose lines include WITHDRAWAL, RESPONSE CODE : 000 and
\* NOTES TAKEN is classified successful_withdrawal, in the record and by
\* every direct call of detect_scenario.
C1_WithdrawalClassified ==
    (ExtDone /\ HasLine(L_Withdrawal) /\ HasLine(L_ResponseCode(0)) /\ HasLine(L_NotesTaken))
        => /\ Field("scenario") = Str("successful_withdrawal")
           /\ \A n \in 1..Len(detected) : detected[n] = "successful_withdrawal"

\* the declaration order the scenarios are tried in
DeclarationOrder == <<"successful_deposit", "deposit_retract", "successful_withdrawal",
                      "withdrawal_retracted", "withdrawal_power_loss",
                      "transaction_canceled_480">>

\* the pattern of the scenario of this name matches the joined slice
MatchesNamed(name) ==
    \E k \in 1..Len(scenarios) :
        scenarios[k].name = name /\ ScenarioMatches(scenarios[k], Join(transaction))

\* the scenario that the declaration order selects for the slice
FirstInOrder(name) ==
    \/ /\ name = "unknown_scenario"
       /\ \A k \in 1..Len(DeclarationOrder) : ~MatchesNamed(DeclarationOrder[k])
    \/ \E k \in 1..Len(DeclarationOrder) :
          /\ name = DeclarationOrder[k]
          /\ MatchesNamed(name)
          /\ \A j \in 1..(k - 1) : ~MatchesNamed(DeclarationOrder[j])

\* C2: the scenario of the record, and the result of every repeated direct
\* call of detect_scenario, is the first scenario in the declaration order
\* whose pattern matches the joined slice, and unknown_scenario exactly when
\* none matches.
C2_FirstDeclaredMatchWins ==
    ExtDone =>
        /\ \E name \in {DeclarationOrder[k] : k \in 1..Len(DeclarationOrder)}
                        \cup {"unknown_scenario"} :
              Field("scenario") = Str(name) /\ FirstInOrder(name)
        /\ \A n \in 1..Len(detected) : Str(detected[n]) = Field("scenario")

\* C2 witness: a slice that matches withdrawal_retracted and the
\* cancellation pattern and no earlier scenario has been classified
\* withdrawal_retracted by the extraction and by two more calls
C2_Witness ==
    /\ ExtDone
    /\ MatchesNamed("withdrawal_retracted") /\ MatchesNamed("transaction_canceled_480")
    /\ \A k \in 1..3 : ~MatchesNamed(DeclarationOrder[k])
    /\ Field("scenario") = Str("withdrawal_retracted")
    /\ Len(detected) = 2 /\ detected[1] = "withdrawal_retracted"
    /\ detected[2] = "withdrawal_retracted"

\* the number held by a field of the record (0 for a null or missing field)
Count(key) ==
    IF key \in DOMAIN transaction_data /\ transaction_data[key].k = "int"
    THEN transaction_data[key].n ELSE 0

IsNull(key) == Field(key) = None_

\* TOTAL_<category> = BDT500_<category> + BDT1000_<category> (+ UNKNOWN_<category>)
TotalIsSum(c) ==
    Count("TOTAL_" \o c) = Count("BDT500_" \o c) + Count("BDT1000_" \o c)
                            + Count("UNKNOWN_" \o c)

\* rows that are a label and four numbers
WellFormedRow(row) ==
    /\ Len(row) = 9
    /\ row[1].k = "w"
    /\ \A j \in {3, 5, 7, 9} : row[j].k = "num"
    /\ \A j \in {2, 4, 6, 8} : row[j] = SP

RowSum(table, rows, j) ==
    IF rows = <<>> THEN 0 ELSE table[Head(rows)][j].n
                               + (IF Len(rows) > 1 THEN table[rows[2]][j].n ELSE 0)
                               + (IF Len(rows) > 2 THEN table[rows[3]][j].n ELSE 0)

\* a table of the journal's layout: two header rows, the rows of the two
\* denominations under each, an optional UNKNOWN row, and TOTAL rows that
\* carry the sums of the rows above them
WellFormedTable(table) ==
    /\ Len(table) \in {8, 9}
    /\ table[1] = Header1 /\ table[5] = Header2
    /\ \A r \in (1..Len(table)) \ {1, 5} : WellFormedRow(table[r])
    /\ table[2][1] = W("BDT500") /\ table[3][1] = W("BDT1000") /\ table[4][1] = W("TOTAL")
    /\ table[6][1] = W("BDT500") /\ table[7][1] = W("BDT1000")
    /\ table[Len(table)][1] = W("TOTAL")
    /\ Len(table) = 9 => table[8][1] = W("UNKNOWN")
    /\ \A j \in {3, 5, 7, 9} :
          /\ table[4][j].n = RowSum(table, <<2, 3>>, j)
          /\ table[Len(table)][j].n =
                RowSum(table, IF Len(table) = 9 THEN <<6, 7, 8>> ELSE <<6, 7>>, j)

\* a non-refund CIM-DEPOSIT COMPLETED line at i, VAL: 010 at i + 6 and a
\* well-formed table from i + 12
DepositCaseAt(i) ==
    /\ i \in 1..Len(transaction)
    /\ Strip(transaction[i]) = L_Completed
    /\ i + 6 <= Len(transaction)
    /\ Strip(transaction[i + 6]) = L_Val(10, 3)
    /\ \E n \in {8, 9} :
          /\ i + 11 + n <= Len(transaction)
          /\ WellFormedTable(SubSeq(transaction, i + 12, i + 11 + n))

\* C6: when a non-refund CIM-DEPOSIT COMPLETED line at i is followed at i + 6
\* by VAL: 010 and from i + 12 by a well-formed denomination table, with or
\* without an UNKNOWN row, the record has Number of Total Inserted Notes = 10
\* and every TOTAL_<category> is the sum of the per-denomination fields of
\* that category.
C6_WellFormedDepositParsed ==
    (ExtDone /\ \E i \in 1..Len(transaction) : DepositCaseAt(i))
        => /\ Field("Number of Total Inserted Notes") = I(10)
           /\ \A c \in Categories : ~IsNull("TOTAL_" \o c) /\ TotalIsSum(c)

\* C7: in every record each aggregate field that is not null is the sum of
\* its constituents: TOTAL_<category>, total_retracted_notes and
\* total_deposit_retracted.
C7_AggregatesAreSums ==
    ExtDone =>
        /\ \A c \in Categories : ~IsNull("TOTAL_" \o c) => TotalIsSum(c)
        /\ ~IsNull("total_retracted_notes") =>
              Count("total_retracted_notes") =
                  Count("retract_type1") + Count("retract_type2")
                  + Count("retract_type3") + Count("retract_type4")
        /\ ~IsNull("total_deposit_retracted") =>
              Count("total_deposit_retracted") =
                  Count("deposit_retract_100") + Count("deposit_retract_500")
                  + Count("deposit_retract_1000") + Count("deposit_retract_unknown")

\* a line that sets the status: the three markers of the status block
StatusMarker(line) ==
    \/ Has(line, "TRANSACTION CANCELED") \/ Has(line, "NOTES TAKEN")
    \/ Has(line, "CIM-DEPOSIT COMPLETED")

RefundLines == {L_Refunded, L_RefundFailed}

\* C8 as stated: for every slice containing a line CIM-DEPOSIT COMPLETED-
\* ITEMS REFUNDED the record has status ITEMS REFUNDED, the denomination
\* sub-parser is not invoked and all denomination fields are null.
C8_RefundedAlways ==
    (ExtDone /\ HasLine(L_Refunded))
        => /\ Field("status") = Str("ITEMS REFUNDED")
           /\ sub_parsed = {}
           /\ \A key \in DenomKeys : IsNull(key)

\* C8 amended: a line CIM-DEPOSIT COMPLETED- ITEMS REFUNDED never invokes
\* the denomination sub-parser; the record has status ITEMS REFUNDED when no
\* later line of the slice carries a status marker, and all denomination
\* fields are null when the slice has no other CIM-DEPOSIT COMPLETED line
\* than refund (or refund-failed) lines.
C8_RefundLineSkipsSubParser ==
    ExtDone =>
        \A i \in 1..Len(transaction) :
            Strip(transaction[i]) = L_Refunded =>
                /\ i \notin sub_parsed
                /\ (\A j \in (i + 1)..Len(transaction) : ~StatusMarker(transaction[j]))
                      => Field("status") = Str("ITEMS REFUNDED")
                /\ (\A j \in 1..Len(transaction) :
                        Has(transaction[j], "CIM-DEPOSIT COMPLETED")
                            => Strip(transaction[j]) \in RefundLines)
                      => \A key \in DenomKeys : IsNull(key)

\* C8 witness: a refund line followed at +6 by VAL: 010 and at +12 by a
\* table has been extracted with status ITEMS REFUNDED and no denomination
\* field
C8_Witness ==
    /\ ExtDone
    /\ Len(transaction) >= 21
    /\ Strip(transaction[1]) = L_Refunded
    /\ Strip(transaction[7]) = L_Val(10, 3)
    /\ WellFormedTable(SubSeq(transaction, 13, 21))
    /\ Field("status") = Str("ITEMS REFUNDED")
    /\ sub_parsed = {}
    /\ \A key \in DenomKeys : IsNull(key)

NullByDefault == {key \in DOMAIN _init_transaction_data : _init_transaction_data[key] = None_}

\* the fields that the scan of the lines of the slice assigns
ScanKeys == UNION {DOMAIN ScanLine(transaction, i, <<>>) : i \in 1..Len(transaction)}

\* a line `N BDT X M =` of this denomination is in the slice
NoteLine(denomination) ==
    \E i \in 1..Len(transaction) :
        LET note_match == Search(patterns.deposit_notes, transaction[i])
        IN  note_match.ok /\ note_match.g[1][1].n = denomination

\* the fields to which the post-processing gives a value read from a line of
\* the slice
PostLineKeys ==
    LET scenario == detect_scenario(transaction)
    IN  (IF scenario = "withdrawal_retracted"
         THEN DOMAIN _process_withdrawal_retracted(transaction) ELSE {})
        \cup (IF scenario \in {"deposit_retract", "unknown_scenario"}
              THEN (IF NoteLine(100) THEN {"deposit_retract_100"} ELSE {})
                   \cup (IF NoteLine(500) THEN {"deposit_retract_500"} ELSE {})
                   \cup (IF NoteLine(1000) THEN {"deposit_retract_1000"} ELSE {})
              ELSE {})
        \cup (IF scenario = "deposit_retract"
              THEN {"total_deposit_retracted"}
                   \cup (IF \E i \in 1..Len(transaction) :
                               Search(patterns.void_notes, transaction[i]).ok
                         THEN {"deposit_retract_unknown"} ELSE {})
              ELSE {})

\* the fields that a line of the slice populates
LinePopulated == ScanKeys \cup PostLineKeys

\* the fields that the scenario post-processing assigns whatever the lines
PostKeys == DOMAIN _post_process_transaction(transaction, <<>>)

CompletionLine(i) ==
    LET line == Strip(transaction[i])
    IN  /\ Has(line, "CIM-DEPOSIT COMPLETED")
        /\ ~Has(line, "TRANSACTION CANCELED") /\ ~Has(line, "NOTES TAKEN")
        /\ Strip(Search(patterns.deposit_complete, line).g[1])
              \notin {RefundedSuffix, RefundFailedSuffix}

\* C16 as stated: the deposit denomination fields are non-null only in a
\* record whose final status is Deposit Completed.
C16_DenomOnlyIfStatusCompleted ==
    ExtDone => ((\E key \in DenomKeys : ~IsNull(key))
                   => Field("status") = Str("Deposit Completed"))

\* C16 amended: the deposit denomination fields are non-null, all together,
\* only if a line of the slice announces a non-refund deposit completion and
\* the line six lines after it carries a positive VAL; the final status is
\* Deposit Completed when no later line of the slice carries a status marker.
C16_DenomOnlyAfterCompletionLine ==
    ExtDone =>
        ((\E key \in DenomKeys : ~IsNull(key)) =>
            /\ \A key \in DenomKeys : ~IsNull(key)
            /\ \E i \in 1..Len(transaction) :
                  /\ CompletionLine(i)
                  /\ i + ValOffset <= Len(transaction)
                  /\ \E j \in 1..Len(transaction[i + ValOffset]) :
                        /\ transaction[i + ValOffset][j].k = "num"
                        /\ transaction[i + ValOffset][j].n > 0
                  /\ (\A j \in (i + 1)..Len(transaction) : ~StatusMarker(transaction[j]))
                        => Field("status") = Str("Deposit Completed"))

\* C16 witness: a completed deposit whose denomination table was parsed is
\* followed by a NOTES TAKEN line; the record has the denomination fields and
\* status Withdraw Completed
C16_Witness ==
    /\ ExtDone
    /\ Len(transaction) >= 1 /\ CompletionLine(1)
    /\ Field("Number of Total Inserted Notes") = I(10)
    /\ Field("TOTAL_ABOX") = I(7)
    /\ Field("status") = Str("Withdraw Completed")

\* the line six lines after line i is beyond the end of the slice, carries
\* no VAL: ddd, or carries VAL: 000
NoValAfter(i) ==
    \/ i + ValOffset > Len(transaction)
    \/ LET val_match == Search(patterns.val, Strip(transaction[i + ValOffset]))
       IN  ~val_match.ok \/ First3(val_match.g[1][1]) = 0

\* C22: the scan of a non-refund CIM-DEPOSIT COMPLETED line whose VAL line
\* is beyond the end of the slice, carries no VAL: ddd or carries VAL: 000
\* calls the sub-parse, which changes no field of the record: after the scan
\* of the line only status and result, which the status block of the line
\* assigns (616-619), can differ, and the status is Deposit Completed; the
\* denomination fields keep the value they had (null, unless an earlier
\* completion line of the slice has set them).
C22_NoValIsNoOp ==
    [][(/\ mode = "extract" /\ pc = "lines"
        /\ line_index <= Len(transaction)
        /\ line_index' = line_index + 1
        /\ CompletionLine(line_index)
        /\ NoValAfter(line_index))
       => /\ DOMAIN transaction_data' = DOMAIN transaction_data
          /\ \A key \in DOMAIN transaction_data \ {"status", "result"} :
                transaction_data'[key] = transaction_data[key]
          /\ transaction_data'["status"] = Str("Deposit Completed")
          /\ sub_parsed' = sub_parsed \cup {line_index}]_vars

\* C22 witness: a slice that ends six lines after its completion line, on a
\* line VAL: 000, was extracted: the status is Deposit Completed and the
\* denomination fields are null
C22_Witness ==
    /\ ExtDone
    /\ transaction = <<L_Completed, L_Filler, L_Filler, L_Filler, L_Filler, L_Filler,
                       L_Val(0, 3)>>
    /\ sub_parsed = {1}
    /\ Field("status") = Str("Deposit Completed")
    /\ \A key \in DenomKeys : IsNull(key)

\* the tables whose cells are all integers: rows or columns may be absent
IntegerTables == Tables \ {TableBadCell}

\* slices made of a completion line, VAL: 010, the cash lines, such a table
\* and what follows it
IntegerTableBlocks ==
    {DepositBlock(L_Completed, L_Val(10, 3), cash, table, tail) :
        cash \in CashLines, table \in IntegerTables, tail \in Tails}

\* the rows of the table of the slice, split into fields
TableRows(tx) ==
    LET table == CHOOSE table \in IntegerTables :
                     \E cash \in CashLines, tail \in Tails :
                         tx = DepositBlock(L_Completed, L_Val(10, 3), cash, table, tail)
    IN  [r \in 1..Len(table) |-> Fields(table[r])]

\* C23: with a positive VAL and a table of integer cells of any row count
\* and any column count per row, Number of Total Inserted Notes is VAL and
\* the field of every cell that the table lacks is 0.
C23_AnyTableShapeParsed ==
    (ExtDone /\ transaction \in IntegerTableBlocks) =>
        LET rows == TableRows(transaction)
        IN  /\ Field("Number of Total Inserted Notes") = I(10)
            /\ \A c \in 1..4 :
                  /\ ~CellPresent(rows, 1, c) => Field("BDT500_" \o Cats1[c]) = I(0)
                  /\ ~CellPresent(rows, 2, c) => Field("BDT1000_" \o Cats1[c]) = I(0)
                  /\ ~CellPresent(rows, 3, c) => Field("TOTAL_" \o Cats1[c]) = I(0)
                  /\ ~CellPresent(rows, 5, c) => Field("BDT500_" \o Cats2[c]) = I(0)
                  /\ ~CellPresent(rows, 6, c) => Field("BDT1000_" \o Cats2[c]) = I(0)

\* a deposit block with this table, followed by nothing or by a blank line
BlockWith(table, cash, tail) == DepositBlock(L_Completed, L_Val(10, 3), cash, table, tail)

\* C24: when one cell of the table is not an integer (TableBadCell is
\* TableNoUnknown with N/A in the TYPE1 cell of the BDT1000 row), the field of
\* that cell is null or 0 and every other field of the record, ej_log aside,
\* is what the slice with the well-formed cell gives.
C24_OnlyBadCellLost ==
    ExtDone =>
        \A cash \in CashLines, tail \in {<<>>, <<L_Blank>>} :
            transaction = BlockWith(TableBadCell, cash, tail) =>
                LET good == extract_transaction_details(BlockWith(TableNoUnknown, cash, tail))
                IN  /\ Field("BDT1000_TYPE1") \in {None_, I(0)}
                    /\ \A key \in DOMAIN good \ {"BDT1000_TYPE1", "ej_log"} :
                          Field(key) = good[key]

\* line i of the slice is a DATE HOUR STAN TERMINAL header
StanHeader(i) ==
    LET line == Strip(transaction[i])
    IN  Has(line, "DATE") /\ Has(line, "HOUR") /\ Has(line, "STAN") /\ Has(line, "TERMINAL")

\* C25: the scan of a STAN header that is the last line of the slice, and
\* the scan of a start sentinel that is its first line, leave the record as
\* it was (stan, terminal and transaction_id keep their value, null unless
\* an earlier line has set them) and the scan goes on to the next step.
C25_LookupsFailSilently ==
    [][(/\ mode = "extract" /\ pc = "lines"
        /\ line_index <= Len(transaction)
        /\ line_index' = line_index + 1
        /\ \/ StanHeader(line_index) /\ line_index = Len(transaction)
           \/ IsStart(Strip(transaction[line_index])) /\ line_index = 1)
       => transaction_data' = transaction_data]_vars

\* C25 witness: a slice that begins with the start sentinel and ends with
\* the STAN header was extracted: the three fields are null and the
\* transaction type of the line in between was read
C25_Witness ==
    /\ ExtDone
    /\ transaction = <<L_Start, L_Withdrawal, L_StanHeader>>
    /\ IsNull("transaction_id") /\ IsNull("stan") /\ IsNull("terminal")
    /\ ~IsNull("transaction_type")

\* the lines of the slice that the pattern matches
LinesMatching(pattern) ==
    {i \in 1..Len(transaction) : Search(pattern, transaction[i]).ok}

\* the count M of the last line `N BDT X M =` of the slice whose N is the
\* denomination, 0 when there is none
NotesRead(denomination) ==
    LET at == {i \in LinesMatching(patterns.deposit_notes) :
                  Search(patterns.deposit_notes, transaction[i]).g[1][1].n = denomination}
    IN  IF at = {} THEN 0
        ELSE Search(patterns.deposit_notes,
                    transaction[CHOOSE i \in at : \A j \in at : j <= i]).g[2][1].n

\* the count N of the last line VOID NOTES RETRACTED:N, 0 when there is none
VoidRead ==
    LET at == LinesMatching(patterns.void_notes)
    IN  IF at = {} THEN 0
        ELSE Search(patterns.void_notes,
                    transaction[CHOOSE i \in at : \A j \in at : j <= i]).g[1][1].n

DenominationCounts ==
    /\ Field("deposit_retract_100") = I(NotesRead(100))
    /\ Field("deposit_retract_500") = I(NotesRead(500))
    /\ Field("deposit_retract_1000") = I(NotesRead(1000))

VoidAndTotal ==
    /\ Field("deposit_retract_unknown") = I(VoidRead)
    /\ Field("total_deposit_retracted")
          = I(NotesRead(100) + NotesRead(500) + NotesRead(1000) + VoidRead)

HasContextLine ==
    /\ Len(transaction) >= 2
    /\ IsStart(Strip(transaction[2]))
    /\ Strip(transaction[1]) # <<>> /\ ~IsStart(Strip(transaction[1]))

\* C28: the record of a slice that begins with a context line differs from
\* the record of the slice without that line in transaction_id at most
\* (and in ej_log, the slice itself).
C28_ContextLineGivesOnlyId ==
    (ExtDone /\ HasContextLine) =>
        LET without == extract_transaction_details(Tail(transaction))
        IN  \A key \in DOMAIN without \ {"transaction_id", "ej_log"} :
                Field(key) = without[key]

IdentityKeys == {"timestamp", "card_number", "transaction_type", "response_code", "stan",
                 "terminal", "account_number", "transaction_number"}

\* the lines scanned so far whose scan assigns the field
Assigning(key) ==
    {i \in 1..(line_index - 1) : key \in DOMAIN ScanLine(transaction, i, <<>>)}

\* C17: at every point of the pass over a slice, an identity or
\* classification field that a scanned line has set holds the value given by
\* the first scanned line that sets it: no later line has overwritten it.
C17_FirstValueKept ==
    (mode = "extract" /\ pc = "lines") =>
        \A key \in IdentityKeys :
            LET lines_ == Assigning(key)
            IN  lines_ # {} =>
                    LET first == CHOOSE i \in lines_ : \A j \in lines_ : i <= j
                    IN  Field(key) = ScanLine(transaction, first, <<>>)[key]

\* the status that the claim gives to a line with a status marker
StatusOfLine(line) ==
    IF Has(line, "TRANSACTION CANCELED") THEN "Canceled"
    ELSE IF Has(line, "NOTES TAKEN") THEN "Withdraw Completed"
    ELSE IF Contains(line, <<W("CIM-DEPOSIT COMPLETED")>> \o RefundedSuffix)
            /\ line[Len(line)] = W("ITEMS REFUNDED")
    THEN "ITEMS REFUNDED"
    ELSE IF Contains(line, <<W("CIM-DEPOSIT COMPLETED")>> \o RefundFailedSuffix)
            /\ line[Len(line)] = W("ITEMS REFUND FAILED")
    THEN "ITEMS REFUND FAILED"
    ELSE "Deposit Completed"

\* the lines scanned so far that contain a status marker
Markers == {i \in 1..(line_index - 1) : StatusMarker(Strip(transaction[i]))}

\* C18: at every point of the pass, and in the returned record, the status
\* is the one of the last scanned line with a status marker, by the priority
\* TRANSACTION CANCELED, NOTES TAKEN, CIM-DEPOSIT COMPLETED (by its suffix);
\* it is No Status exactly when no scanned line has a marker, so it never
\* returns to No Status.
C18_LastMarkerWins ==
    (mode = "extract" /\ pc \in {"lines", "done"}) =>
        /\ Field("status") = Str("No Status") <=> Markers = {}
        /\ Markers # {} =>
              LET last == CHOOSE i \in Markers : \A j \in Markers : j <= i
              IN  Field("status") = Str(StatusOfLine(Strip(transaction[last])))

\* C18 witness: after a NOTES TAKEN line, a line with both TRANSACTION
\* CANCELED and NOTES TAKEN has given the record the status Canceled
C18_Witness ==
    /\ ExtDone
    /\ transaction = <<L_NotesTaken, L_CanceledTaken>>
    /\ Field("status") = Str("Canceled")

\* line i of the slice is a start sentinel and the line before it contains
\* *digits*
IdBeforeStart(i) ==
    /\ i > 1
    /\ IsStart(Strip(transaction[i]))
    /\ Search(patterns.transaction_id, Strip(transaction[i - 1])).ok

\* C19: when a start sentinel of the slice, *TRANSACTION START* or *CARDLESS
\* TRANSACTION START*, is immediately preceded by a line containing *digits*
\* (the last such sentinel, if there are several), the transaction_id of the
\* record is those digits.
C19_IdFromContextLine ==
    ExtDone =>
        \A i \in 1..Len(transaction) :
            (IdBeforeStart(i) /\ \A j \in (i + 1)..Len(transaction) : ~IdBeforeStart(j))
                => Field("transaction_id")
                     = T(Search(patterns.transaction_id, Strip(transaction[i - 1])).g[1])

(***************************************************************************)
(* Claims about a batch (specification SpecBatch).                         *)
(***************************************************************************)
\* the records of the output that come from the file at this path
RecordsOf(file_path) ==
    {k \in 1..Len(all_transactions) : all_transactions[k]["file_name"] = FileName(file_path)}

\* the file is one slice truncated immediately after its start sentinel:
\* the start sentinel alone, or the *digits* line and the start sentinel
TruncatedAfterStart(f) ==
    /\ f.stat = "ok" /\ ~HasUndecodable(f)
    /\ StrippedLines(f) \in {<<L_Start>>, <<Strip(L_Cardless)>>, <<L_Id, L_Start>>,
                             <<L_Id, Strip(L_Cardless)>>}

RetractCounts == {"deposit_retract_100", "deposit_retract_500", "deposit_retract_1000"}

StartCount(f) == Cardinality({r \in 1..Len(f.content) : IsStart(Strip(f.content[r]))})

\* a readable file of whole transactions, the last line an end sentinel
WellFormedFile(f) ==
    /\ f.stat = "ok" /\ ~HasUndecodable(f) /\ f.tail = <<>>
    /\ StartCount(f) >= 1
    /\ IsEnd(Strip(f.content[Len(f.content)]))

\* no supported encoding decodes the content of the file
UndecodableFile(f) ==
    /\ f.stat = "ok"
    /\ \A k \in 1..Len(supported_encodings) : ~StrictlyDecodable(supported_encodings[k], f)

\* C10: in a batch of two files, one well-formed and one that no supported
\* encoding can decode, the output has all transactions of the well-formed
\* file, none of the undecodable file, and an error is reported for the
\* undecodable file.
C10_UndecodableFileReported ==
    (BatchDone /\ Len(file_paths) = 2) =>
        \A g \in 1..2, u \in 1..2 :
            (WellFormedFile(file_paths[g]) /\ UndecodableFile(file_paths[u])) =>
                /\ Cardinality(RecordsOf(g)) = StartCount(file_paths[g])
                /\ RecordsOf(u) = {}
                /\ \E e \in 1..Len(metrics.errors) : metrics.errors[e].file_path = u

\* the slices of a loaded file, in the order of its lines
SlicesOfFile(file_path) == segment_transactions(log_contents[file_path])

\* the records of the output that come from this slice (index from 0) of the
\* file at this path
RecordsOfSlice(file_path, i) ==
    {k \in RecordsOf(file_path) : all_transactions[k]["transaction_index"] = I(i)}

\* C12: whatever the order in which the workers run and finish, the records
\* of one file are in the output in the order of its slices: their
\* transaction_index is strictly increasing and the record of index i holds
\* the i-th slice of the file; when the batch is done they are all there.
C12_FileOrderKept ==
    (mode = "batch" /\ bpc \in {"process", "done"}) =>
        \A p \in DOMAIN log_contents :
            /\ \A k1 \in RecordsOf(p), k2 \in RecordsOf(p) :
                  k1 < k2 => all_transactions[k1]["transaction_index"].n
                             < all_transactions[k2]["transaction_index"].n
            /\ \A k \in RecordsOf(p) :
                  LET i == all_transactions[k]["transaction_index"].n
                  IN  /\ i < Len(SlicesOfFile(p))
                      /\ all_transactions[k]["ej_log"] = List(SlicesOfFile(p)[i + 1])
            /\ bpc = "done" => Cardinality(RecordsOf(p)) = Len(SlicesOfFile(p))

\* C12 witness: the worker of the second file was handled first, and the two
\* records of the first file follow it in the output in the order of their
\* slices
C12_Witness ==
    /\ BatchDone
    /\ Len(file_paths) = 2
    /\ file_paths[1] = GoodFile2
    /\ RecordsOf(2) = {1}
    /\ RecordsOf(1) = {2, 3}
    /\ all_transactions[2]["transaction_index"] = I(0)
    /\ all_transactions[2]["status"] = Str("Canceled")
    /\ all_transactions[3]["transaction_index"] = I(1)
    /\ all_transactions[3]["transaction_type"] = Str("Deposit")

\* the extraction of this slice is recorded as failed
Failed(file_path, i) == FaultAt(file_path, i) # "none"

\* the record that process_single_file emits for a slice whose extraction
\* does not fail
SoundRecord(file_path, i) ==
    ("file_name" :> FileName(file_path)) @@ ("file_hash" :> FileHash(file_path))
    @@ ("transaction_index" :> I(i))
    @@ extract_transaction_details(SlicesOfFile(file_path)[i + 1])

\* C13: when the extraction of slices fails, every other slice of the file is
\* emitted once with the content it has in a run without failures; a failed
\* slice is either emitted once with extraction_error and its lines, or
\* dropped with an error entry that names the file and the index; and
\* process_transactions returns what it emitted, its count in the metrics.
C13_SiblingsKept ==
    BatchDone =>
        /\ metrics.transactions_extracted = Len(all_transactions)
        /\ \A p \in DOMAIN log_contents : \A i \in 0..(Len(SlicesOfFile(p)) - 1) :
              IF ~Failed(p, i)
              THEN /\ Cardinality(RecordsOfSlice(p, i)) = 1
                   /\ \A k \in RecordsOfSlice(p, i) : all_transactions[k] = SoundRecord(p, i)
              ELSE \/ /\ Cardinality(RecordsOfSlice(p, i)) = 1
                      /\ \A k \in RecordsOfSlice(p, i) :
                            /\ "extraction_error" \in DOMAIN all_transactions[k]
                            /\ all_transactions[k]["ej_log"] = List(SlicesOfFile(p)[i + 1])
                   \/ /\ RecordsOfSlice(p, i) = {}
                      /\ \E e \in 1..Len(processing_errors) :
                            processing_errors[e] = [file_path |-> p, index |-> i]
                      /\ \E e \in 1..Len(metrics.errors) :
                            metrics.errors[e] = [file_path |-> p, index |-> i]

\* C13 witness: in a file of two slices the extraction of the first raised
\* before its try block and was dropped with an error entry, in another the
\* first slice was emitted with extraction_error; the second slice of both is
\* in the output as in a run without failures
C13_Witness ==
    /\ BatchDone
    /\ Len(file_paths) = 2
    /\ faults = {Fault(1, 0, "entry"), Fault(2, 0, "post")}
    /\ RecordsOfSlice(1, 0) = {}
    /\ \E k \in RecordsOfSlice(1, 1) : all_transactions[k] = SoundRecord(1, 1)
    /\ \E k \in RecordsOfSlice(2, 0) : "extraction_error" \in DOMAIN all_transactions[k]
    /\ \E k \in RecordsOfSlice(2, 1) : all_transactions[k] = SoundRecord(2, 1)
    /\ Len(processing_errors) = 1

\* an error of load_logs is recorded for the path
Reported(file_path) == \E e \in 1..Len(errors) : errors[e].file_path = file_path

\* the lines of the file as its first supported encoding reads them, stripped
LinesOf(f) ==
    LET ls == readlines(supported_encodings[1], f) IN [r \in 1..Len(ls) |-> Strip(ls[r])]

\* C14: when load_logs has returned, every input path is either a key of the
\* map, with the lines of its file in their order, or absent from the map
\* with an error recorded, never both and never neither; a file that can be
\* read and has lines is loaded whatever happens to the other files.
C14_LoadedOrReported ==
    (mode = "batch" /\ bpc # "load") =>
        /\ SubSeq(metrics.errors, 1, Len(errors)) = errors
        /\ \A p \in 1..Len(file_paths) :
              /\ (p \in DOMAIN log_contents) # Reported(p)
              /\ p \in DOMAIN log_contents => log_contents[p] = LinesOf(file_paths[p])
              /\ (file_paths[p].stat = "ok" /\ LinesOf(file_paths[p]) # <<>>)
                    => p \in DOMAIN log_contents

\* C14 witness: load_logs has returned the lines of the second file of a
\* batch whose first file is missing and has an error recorded
C14_Witness ==
    /\ mode = "batch" /\ bpc = "process"
    /\ Len(file_paths) = 2
    /\ file_paths[1] = MissingFile /\ file_paths[2] = GoodFile
    /\ DOMAIN log_contents = {2}
    /\ log_contents[2] = StrippedLines(GoodFile)
    /\ errors = <<[file_path |-> 1, error |-> "File not found"]>>

\* C15: whatever the interleaving of the workers, the output holds only
\* records of files whose future the coordinating loop has handled, the
\* result of a worker is the one of a worker running alone, and when the
\* batch is done every slice of every loaded file has exactly one record and
\* the output has no other record.
C15_EachRecordOnce ==
    (mode = "batch" /\ bpc \in {"process", "done"}) =>
        /\ \A k \in 1..Len(all_transactions) :
              \E p \in collected : all_transactions[k]["file_name"] = FileName(p)
        /\ \A p \in DOMAIN futures :
              futures[p] = process_single_file(p, log_contents[p])
        /\ \A p \in collected : \A i \in 0..(Len(SlicesOfFile(p)) - 1) :
              Cardinality(RecordsOfSlice(p, i)) = 1
        /\ \A p \in collected : Cardinality(RecordsOf(p)) = Len(SlicesOfFile(p))
        /\ bpc = "done" => collected = DOMAIN log_contents

\* C15 witness: two workers were each half-way through the two slices of
\* their file, nothing merged yet
C15_Witness ==
    /\ mode = "batch" /\ bpc = "process"
    /\ DOMAIN workers = {1, 2}
    /\ workers[1].i = 1 /\ Len(workers[1].transactions) = 2
    /\ workers[2].i = 1 /\ Len(workers[2].transactions) = 2
    /\ all_transactions = <<>>

====
